---- MODULE Spec2Model ----
(***************************************************************************)
(* A model of the scheduling and lifecycle core of peloton:                *)
(*   - common/recovery/recovery.go : batched job recovery                  *)
(*   - resmgr/scalar/resources.go  : scalar resources and allocations      *)
(*   - placement/tasks/service.go  : the resource pool tree (package       *)
(*                                   respool, second half of the file)     *)
(* Each component has its own next-state relation and specification; all   *)
(* specifications share the initial state (the state after construction).  *)
(***************************************************************************)
EXTENDS Integers, Sequences, FiniteSets, Bags, TLC

VARIABLES
    \* ---- createTaskBatches / createJobBatches called as pure functions
    batchConfig,     \* the job config last given to createTaskBatches
    taskBatches,     \* the []TasksBatch it returned
    batchCalled,     \* whether createTaskBatches has been called
    \* ---- RecoverJobsByState and the goroutines it starts
    jobIDs,          \* the jobs GetJobsByStates returned (what the store holds of each)
    jobBatches,      \* createJobBatches(jobIDs): per batch, the positions in jobIDs
    mpc,             \* RecoverJobsByState: "idle", "select" or "returned"
    mresult,         \* its return value: "none", "nil" or "err"
    bwg,             \* sync.WaitGroup bwg
    bFinished,       \* "none": not made; "open"; "closed" (chan finished, line 232)
    bErrChan,        \* number of errors buffered in errChan (line 233)
    batchG,          \* per job batch: the recoverJobsBatch goroutine and its recoverJob
    \* ---- history of the recovery run
    started,         \* jobs whose GetJobRuntime was called
    invoked,         \* <<job, task batch>> for which f was invoked
    reported,        \* jobs for which f sent an error on recoverJob's errChan
    loggedRecovered, \* jobs logged "recovered job successfully"
    configLoaded,    \* jobs whose GetJobConfig was called
    ctxDone,         \* whether ctx, the context given to RecoverJobsByState, is cancelled
    \* ---- an Allocation of a resource pool, and its history
    alloc,           \* the Allocation (Value: allocation type -> Resources)
    held,            \* bag of the allocations added and not subtracted since
    allocExact,      \* every operation so far kept to the accounting discipline
    allocOps,        \* the operations applied so far, "Add" / "Subtract"
    \* ---- the resource pool tree
    root,            \* t.root: a node reference, or NilNode
    resPools,        \* t.resPools: resource pool id -> node reference
    heap,            \* the resPool objects in use, by reference
    updatedChan,     \* number of signals buffered in t.updatedChan (capacity 1)
    lastOp,          \* the last tree operation, whether it returned an error
                     \* and the ids it took out of the index
    \* ---- the Cassandra connector
    rows,            \* the table: primary key -> stored row, or NoRow
    calls,           \* caller -> the connector call it makes and how far it is
    ExecuteSuccess,  \* c.metrics.ExecuteSuccess
    ExecuteFail,     \* c.metrics.ExecuteFail
    \* ---- the placement engine's task service and the resource manager
    rmQueue,         \* the gangs waiting at the resource manager, in order
    assignments,     \* the assignments dequeued and still with the placement engine
    placed,          \* the tasks whose placement the resource manager accepted
    returned,        \* <<task, reason>> of the gangs enqueued back
    enqueuedGangs,   \* the gangs of the accepted EnqueueGangs requests, as sets of tasks
    SetPlacementSuccess, \* s.metrics.SetPlacementSuccess
    \* ---- lifecyclemgr: the v1 lifecycle manager and the host manager
    lockKill,        \* lockState: the kill lock is set
    tokens,          \* the tokens left in the rate limiter
    hostCalls,       \* the requests the host manager received, by kind
    podsSent,        \* the pods in the LaunchPods requests the host manager received
    metrics,         \* l.metrics, by counter
    lcOp,            \* the last call of the lifecycle manager and its error
    killChecked,     \* the Kill calls that have passed the lock check and not gone on yet
    \* ---- jobmgr/goalstate: the task actions, the cache and their neighbours
    jobCached,       \* jobFactory.GetJob finds the job
    taskCached,      \* the cached task: absent, without runtime yet, or with its runtime
    taskStore,       \* the task's runtime in the task store
    cacheWrites,     \* <<action, method>> of every write to the cached runtime
    rmGangs,         \* <<task, resource pool>> of the gangs sent to the resource manager
    engineQueue,     \* the entities enqueued into the goal-state engines
    launched,        \* a stateful launch was sent for the task
    taMetrics,       \* TaskInvalidState, and the errors logged
    taOp,            \* the last action run, its calls in order and its error
    jobGoal,         \* a job type and the goal state chosen for it
    \* ---- scalar.Resources: Subtract, LessThanOrEqual and Equal called on two operands
    scalarR,         \* the receiver r
    scalarOther,     \* the argument other
    scalarOp,        \* the method last called: "none", "Subtract", "LessThanOrEqual", "Equal"
    subtracted,      \* what r.Subtract(other) returned
    compared         \* what the comparison returned: for LessThanOrEqual both ways round

batchVars == <<batchConfig, taskBatches, batchCalled>>

recoveryVars == <<jobIDs, jobBatches, mpc, mresult, bwg, bFinished, bErrChan,
                  batchG, started, invoked, reported, loggedRecovered,
                  configLoaded, ctxDone>>

allocVars == <<alloc, held, allocExact, allocOps>>

treeVars == <<root, resPools, heap, updatedChan, lastOp>>

connectorVars == <<rows, calls, ExecuteSuccess, ExecuteFail>>

placementVars == <<rmQueue, assignments, placed, returned, enqueuedGangs, SetPlacementSuccess>>

lifecycleVars == <<lockKill, tokens, hostCalls, podsSent, metrics, lcOp, killChecked>>

goalstateVars == <<jobCached, taskCached, taskStore, cacheWrites, rmGangs, engineQueue, launched, taMetrics, taOp, jobGoal>>

scalarVars == <<scalarR, scalarOther, scalarOp, subtracted, compared>>

vars == <<batchConfig, taskBatches, batchCalled,
          jobIDs, jobBatches, mpc, mresult, bwg, bFinished, bErrChan,
          batchG, started, invoked, reported, loggedRecovered, configLoaded, ctxDone,
          alloc, held, allocExact, allocOps,
          root, resPools, heap, updatedChan, lastOp,
          rows, calls, ExecuteSuccess, ExecuteFail,
          rmQueue, assignments, placed, returned, enqueuedGangs, SetPlacementSuccess,
          lockKill, tokens, hostCalls, podsSent, metrics, lcOp, killChecked,
          jobCached, taskCached, taskStore, cacheWrites, rmGangs, engineQueue, launched, taMetrics, taOp, jobGoal,
          scalarR, scalarOther, scalarOp, subtracted, compared>>

(***************************************************************************)
(* uint32 arithmetic.  A uint32 is a pair <<hi, lo>> of 16-bit halves, so  *)
(* that every value of the type is representable and every operation wraps *)
(* modulo 2^32 as Go's does.                                               *)
(***************************************************************************)
Half == 65536

U32(n) == <<(n \div Half) % Half, n % Half>>

\* the value of a uint32 below 2^31 as an integer
Val(u) == u[1] * Half + u[2]

Fits(u) == u[1] < 32768

Lt32(a, b) == a[1] < b[1] \/ (a[1] = b[1] /\ a[2] < b[2])

Le32(a, b) == a = b \/ Lt32(a, b)

Add32(a, b) ==
    LET lo == a[2] + b[2]
        hi == a[1] + b[1] + (lo \div Half)
    IN  <<hi % Half, lo % Half>>

Sub32(a, b) ==
    LET lo == a[2] - b[2]
        hi == a[1] - b[1] - (IF lo < 0 THEN 1 ELSE 0)
    IN  <<hi % Half, lo % Half>>

\* a * k modulo 2^32, for a multiplier k below 2^15
Mul32(a, k) ==
    LET lo == a[2] * k
        hi == a[1] * k + (lo \div Half)
    IN  <<hi % Half, lo % Half>>

\* a / k (integer division), for a divisor k below 2^15
Div32(a, k) ==
    LET q1   == a[1] \div k
        rest == (a[1] % k) * Half + a[2]
    IN  Add32(<<q1, 0>>, U32(rest \div k))

\* util.Min on uint32
Min32(a, b) == IF Lt32(a, b) THEN a ELSE b

(***************************************************************************)
(* recovery.go: task and job batches                                       *)
(***************************************************************************)
requeueTaskBatchSize == 1000

requeueJobBatchSize == 10

TasksBatch(from, to) == [From |-> from, To |-> to]

\* the loop of createTaskBatches, lines 67-74: i runs from i to rangevar
RECURSIVE singleInstanceBatches(_, _, _)
singleInstanceBatches(i, rangevar, numSingleInstances) ==
    IF ~Le32(i, rangevar)
    THEN <<>>
    ELSE <<TasksBatch(Mul32(i, requeueTaskBatchSize),
                      Min32(Mul32(Add32(i, U32(1)), requeueTaskBatchSize),
                            numSingleInstances))>>
         \o singleInstanceBatches(Add32(i, U32(1)), rangevar, numSingleInstances)

createTaskBatches(config) ==
    LET minInstances == config.MinimumRunningInstances
        gang == Lt32(U32(1), minInstances)
        batches == IF gang THEN <<TasksBatch(U32(0), minInstances)>> ELSE <<>>
        numSingleInstances ==
            IF gang THEN Sub32(config.InstanceCount, minInstances)
                    ELSE config.InstanceCount
        initialSingleInstance ==
            IF gang THEN Add32(U32(0), minInstances) ELSE U32(0)
    IN  IF Lt32(U32(0), numSingleInstances)
        THEN batches \o singleInstanceBatches(
                 initialSingleInstance,
                 Div32(numSingleInstances, requeueTaskBatchSize),
                 numSingleInstances)
        ELSE batches

(***************************************************************************)
(* Inputs of createTaskBatches: instance counts around the multiples of    *)
(* the batch size, and minimum-running-instances values below, at and      *)
(* above them.                                                             *)
(***************************************************************************)
MaxSmallCount == 4

MaxThousands == 3

\* minimum-running-instances values above the instance count, for which
\* numSingleInstances wraps around: one just below 2^32 / 1001, where the loop
\* still runs a few times, and one above every batch index the loop can reach.
\* (For a smaller minimum above the instance count the loop appends about
\* 4.29 million batches; those inputs are left out.)
NearWrapMinInstances == 4290670

HugeMinInstances == 5000000

InstanceCounts ==
    (0 .. MaxSmallCount)
    \cup {k * requeueTaskBatchSize + d : k \in 1 .. MaxThousands, d \in {-1, 0, 1}}
    \cup {k * requeueTaskBatchSize + 500 : k \in 1 .. MaxThousands}

MinInstances ==
    (0 .. MaxSmallCount)
    \cup {requeueTaskBatchSize, requeueTaskBatchSize + 1}
    \cup {NearWrapMinInstances, HugeMinInstances}

JobConfigs ==
    {[InstanceCount |-> U32(c), MinimumRunningInstances |-> U32(m)] :
        <<c, m>> \in {p \in InstanceCounts \X MinInstances :
                         p[2] <= p[1] \/ p[2] >= NearWrapMinInstances}}

NoConfig == [InstanceCount |-> U32(0), MinimumRunningInstances |-> U32(0)]

InitBatches ==
    /\ batchConfig = NoConfig
    /\ taskBatches = <<>>
    /\ batchCalled = FALSE

CallCreateTaskBatches(config) ==
    /\ batchConfig' = config
    /\ taskBatches' = createTaskBatches(config)
    /\ batchCalled' = TRUE
    /\ UNCHANGED <<recoveryVars, allocVars, treeVars, connectorVars, placementVars, lifecycleVars, goalstateVars, scalarVars>>

NextBatches ==
    \E config \in JobConfigs : CallCreateTaskBatches(config)

(***************************************************************************)
(* recovery.go: RecoverJobsByState, recoverJobsBatch, recoverJob           *)
(*                                                                         *)
(* A job of the index is described by what the store answers for it:       *)
(*   runtime: what GetJobRuntime answers, an error ("NotFound" or "Error") *)
(*            or a runtime ("nil") with its state, goal state and update   *)
(*            id;                                                          *)
(*   configError: whether GetJobConfig fails; config: what it returns.     *)
(***************************************************************************)
MaxJobs == 2

UpdateIDs == {"", "update-1"}

\* the answer of GetJobRuntime: err, and of the runtime what recoverJobsBatch
\* reads: IsPelotonJobStateTerminal of State and of GoalState, and UpdateID
JobRuntime(err, stateTerminal, goalStateTerminal, updateID) ==
    [err |-> err, stateTerminal |-> stateTerminal,
     goalStateTerminal |-> goalStateTerminal, updateID |-> updateID]

FailedRuntimes == {JobRuntime(e, FALSE, FALSE, "") : e \in {"NotFound", "Error"}}

\* the runtime lines 164-166 skip, and a running job's
TerminalRuntime == JobRuntime("nil", TRUE, TRUE, "")

RunningRuntime == JobRuntime("nil", FALSE, FALSE, "")

\* the runtimes that differ from TerminalRuntime in exactly one of the three
\* things lines 164-166 test
NearlyTerminalRuntimes ==
    {JobRuntime("nil", TRUE, TRUE, u) : u \in UpdateIDs \ {""}}
    \cup {JobRuntime("nil", TRUE, FALSE, ""), JobRuntime("nil", FALSE, TRUE, "")}

\* a skip test with the check of the update id inverted
SkippedAsTerminalWithUpdate(runtime) ==
    /\ runtime.stateTerminal
    /\ runtime.goalStateTerminal
    /\ runtime.updateID # ""

\* lines 164-166: the test of "Do not process jobs in terminal state and
\* have no update"
SkippedAsTerminal(runtime) ==
    /\ runtime.stateTerminal
    /\ runtime.goalStateTerminal
    /\ runtime.updateID = ""

\* configs with no, one, two and three task batches
RecoveryConfigs ==
    {[InstanceCount |-> U32(c), MinimumRunningInstances |-> U32(0)] :
        c \in {0, 1, requeueTaskBatchSize, 2 * requeueTaskBatchSize}}

OneBatchConfig == [InstanceCount |-> U32(1), MinimumRunningInstances |-> U32(0)]

\* jobs whose GetJobConfig would fail; a running job with each config; a
\* nearly terminal job with a config of one task batch
JobKinds ==
    {[runtime |-> r, configError |-> TRUE, config |-> NoConfig] :
        r \in FailedRuntimes \cup {TerminalRuntime, RunningRuntime}}
    \cup {[runtime |-> RunningRuntime, configError |-> FALSE, config |-> c] :
             c \in RecoveryConfigs}
    \cup {[runtime |-> r, configError |-> FALSE, config |-> OneBatchConfig] :
             r \in NearlyTerminalRuntimes}

\* every list of up to MaxJobs jobs, and lists that fill one batch of
\* requeueJobBatchSize jobs of one kind that starts no recoverJob, followed
\* by one more job (two job batches that run concurrently)
JobLists ==
    UNION {[1 .. n -> JobKinds] : n \in 0 .. MaxJobs}
    \cup {[i \in 1 .. requeueJobBatchSize + 1 |->
               IF i <= requeueJobBatchSize THEN k1 ELSE k2] :
             k1 \in {k \in JobKinds : k.configError}, k2 \in JobKinds}

MinInt(a, b) == IF a < b THEN a ELSE b

\* createJobBatches, on the positions 1 .. numJobs of jobIDS
createJobBatches(numJobs) ==
    LET rangevar == numJobs \div requeueJobBatchSize
    IN  [k \in 1 .. rangevar + 1 |->
            LET i    == k - 1
                from == i * requeueJobBatchSize
                to   == MinInt((i + 1) * requeueJobBatchSize, numJobs)
            IN  [x \in 1 .. to - from |-> from + x]]

\* a recoverJobsBatch goroutine before its first job
NewBatchGoroutine ==
    [pc       |-> "loop",    \* "loop", "select" (in recoverJob), "sendErr", "done"
     idx      |-> 1,         \* position in batch.jobs of the job being processed
     tasks    |-> <<>>,      \* recoverJob's task goroutines: "run", "sending", "done"
     twg      |-> 0,         \* sync.WaitGroup twg
     finished |-> "none",    \* chan finished of recoverJob: "none", "open", "closed"
     errChan  |-> 0]         \* errors buffered in recoverJob's errChan (capacity 1)

InitRecovery ==
    /\ jobIDs = <<>>
    /\ jobBatches = <<>>
    /\ mpc = "idle"
    /\ mresult = "none"
    /\ bwg = 0
    /\ bFinished = "none"
    /\ bErrChan = 0
    /\ batchG = <<>>
    /\ started = {}
    /\ invoked = {}
    /\ reported = {}
    /\ loggedRecovered = {}
    /\ configLoaded = {}
    /\ ctxDone = FALSE

Batches == DOMAIN batchG

\* the job (position in jobIDs) batch goroutine b is at
CurrentJob(b) == jobBatches[b][batchG[b].idx]

AtJob(b) ==
    /\ b \in Batches
    /\ batchG[b].pc = "loop"
    /\ batchG[b].idx <= Len(jobBatches[b])

\* lines 197-202: GetJobsByStates fails
GetJobsByStatesFails ==
    /\ mpc = "idle"
    /\ mpc' = "returned"
    /\ mresult' = "err"
    /\ UNCHANGED <<jobIDs, jobBatches, bwg, bFinished, bErrChan, batchG,
                   started, invoked, reported, loggedRecovered>>
    /\ UNCHANGED <<configLoaded, ctxDone>>
    /\ UNCHANGED <<batchVars, allocVars, treeVars, connectorVars, placementVars, lifecycleVars, goalstateVars, scalarVars>>

\* lines 197-245: the index returns jobs; one goroutine per job batch and the
\* waiter are started, and RecoverJobsByState reaches its select
RecoverJobsByStateStart(jobs) ==
    /\ mpc = "idle"
    /\ jobIDs' = jobs
    /\ jobBatches' = createJobBatches(Len(jobs))
    /\ batchG' = [b \in DOMAIN jobBatches' |-> NewBatchGoroutine]
    /\ bwg' = Len(jobBatches')
    /\ bFinished' = "open"
    /\ bErrChan' = 0
    /\ mpc' = "select"
    /\ UNCHANGED <<mresult, started, invoked, reported, loggedRecovered>>
    /\ UNCHANGED <<configLoaded, ctxDone>>
    /\ UNCHANGED <<batchVars, allocVars, treeVars, connectorVars, placementVars, lifecycleVars, goalstateVars, scalarVars>>

\* a recoverJobsBatch that bails out on a GetJobRuntime error, as it does on
\* a GetJobConfig error, instead of skipping the job
LoadJobRuntimeFailsAndAborts(b) ==
    /\ AtJob(b)
    /\ jobIDs[CurrentJob(b)].runtime.err # "nil"
    /\ started' = started \cup {CurrentJob(b)}
    /\ batchG' = [batchG EXCEPT ![b].pc = "sendErr"]
    /\ UNCHANGED <<jobIDs, jobBatches, mpc, mresult, bwg, bFinished, bErrChan,
                   invoked, reported, loggedRecovered>>
    /\ UNCHANGED <<configLoaded, ctxDone>>
    /\ UNCHANGED <<batchVars, allocVars, treeVars, connectorVars, placementVars, lifecycleVars, goalstateVars, scalarVars>>

\* lines 142-161: GetJobRuntime fails, with NotFound or with any other error:
\* logged, and the loop continues with the next job
LoadJobRuntimeFails(b) ==
    /\ AtJob(b)
    /\ jobIDs[CurrentJob(b)].runtime.err # "nil"
    /\ started' = started \cup {CurrentJob(b)}
    /\ batchG' = [batchG EXCEPT ![b].idx = @ + 1]
    /\ UNCHANGED <<jobIDs, jobBatches, mpc, mresult, bwg, bFinished, bErrChan,
                   invoked, reported, loggedRecovered>>
    /\ UNCHANGED <<configLoaded, ctxDone>>
    /\ UNCHANGED <<batchVars, allocVars, treeVars, connectorVars, placementVars, lifecycleVars, goalstateVars, scalarVars>>

\* lines 163-168: a terminal job with no update is skipped
SkipTerminalJob(b) ==
    /\ AtJob(b)
    /\ jobIDs[CurrentJob(b)].runtime.err = "nil"
    /\ SkippedAsTerminal(jobIDs[CurrentJob(b)].runtime)
    /\ started' = started \cup {CurrentJob(b)}
    /\ batchG' = [batchG EXCEPT ![b].idx = @ + 1]
    /\ UNCHANGED <<jobIDs, jobBatches, mpc, mresult, bwg, bFinished, bErrChan,
                   invoked, reported, loggedRecovered>>
    /\ UNCHANGED <<configLoaded, ctxDone>>
    /\ UNCHANGED <<batchVars, allocVars, treeVars, connectorVars, placementVars, lifecycleVars, goalstateVars, scalarVars>>

\* lines 170-177: GetJobConfig fails; the goroutine goes to send the error
LoadJobConfigFails(b) ==
    /\ AtJob(b)
    /\ jobIDs[CurrentJob(b)].runtime.err = "nil"
    /\ ~SkippedAsTerminal(jobIDs[CurrentJob(b)].runtime)
    /\ jobIDs[CurrentJob(b)].configError
    /\ started' = started \cup {CurrentJob(b)}
    /\ batchG' = [batchG EXCEPT ![b].pc = "sendErr"]
    /\ UNCHANGED <<jobIDs, jobBatches, mpc, mresult, bwg, bFinished, bErrChan,
                   invoked, reported, loggedRecovered>>
    /\ configLoaded' = configLoaded \cup {CurrentJob(b)}
    /\ UNCHANGED ctxDone
    /\ UNCHANGED <<batchVars, allocVars, treeVars, connectorVars, placementVars, lifecycleVars, goalstateVars, scalarVars>>

\* lines 179, 102-119: recoverJob makes its channels, starts one goroutine per
\* task batch and the waiter, and reaches its select
StartRecoverJob(b) ==
    /\ AtJob(b)
    /\ jobIDs[CurrentJob(b)].runtime.err = "nil"
    /\ ~SkippedAsTerminal(jobIDs[CurrentJob(b)].runtime)
    /\ ~jobIDs[CurrentJob(b)].configError
    /\ started' = started \cup {CurrentJob(b)}
    /\ LET n == Len(createTaskBatches(jobIDs[CurrentJob(b)].config))
       IN  batchG' = [batchG EXCEPT ![b].pc = "select",
                                    ![b].tasks = [t \in 1 .. n |-> "run"],
                                    ![b].twg = n,
                                    ![b].finished = "open",
                                    ![b].errChan = 0]
    /\ UNCHANGED <<jobIDs, jobBatches, mpc, mresult, bwg, bFinished, bErrChan,
                   invoked, reported, loggedRecovered>>
    /\ configLoaded' = configLoaded \cup {CurrentJob(b)}
    /\ UNCHANGED ctxDone
    /\ UNCHANGED <<batchVars, allocVars, treeVars, connectorVars, placementVars, lifecycleVars, goalstateVars, scalarVars>>

TaskAt(b, t, pc) ==
    /\ b \in Batches
    /\ t \in DOMAIN batchG[b].tasks
    /\ batchG[b].tasks[t] = pc

\* lines 110-113: f recovers the task batch and reports nothing; twg.Done()
TaskRecoverOk(b, t) ==
    /\ TaskAt(b, t, "run")
    /\ invoked' = invoked \cup {<<CurrentJob(b), t>>}
    /\ batchG' = [batchG EXCEPT ![b].tasks[t] = "done", ![b].twg = @ - 1]
    /\ UNCHANGED <<jobIDs, jobBatches, mpc, mresult, bwg, bFinished, bErrChan,
                   started, reported, loggedRecovered>>
    /\ UNCHANGED <<configLoaded, ctxDone>>
    /\ UNCHANGED <<batchVars, allocVars, treeVars, connectorVars, placementVars, lifecycleVars, goalstateVars, scalarVars>>

\* line 112: f fails for the task batch and goes to send the error on errChan
TaskRecoverFails(b, t) ==
    /\ TaskAt(b, t, "run")
    /\ invoked' = invoked \cup {<<CurrentJob(b), t>>}
    /\ batchG' = [batchG EXCEPT ![b].tasks[t] = "sending"]
    /\ UNCHANGED <<jobIDs, jobBatches, mpc, mresult, bwg, bFinished, bErrChan,
                   started, reported, loggedRecovered>>
    /\ UNCHANGED <<configLoaded, ctxDone>>
    /\ UNCHANGED <<batchVars, allocVars, treeVars, connectorVars, placementVars, lifecycleVars, goalstateVars, scalarVars>>

\* lines 103, 111-112: the send on errChan (capacity 1) completes when the
\* buffer has room; f returns and twg.Done() runs
TaskSendErr(b, t) ==
    /\ TaskAt(b, t, "sending")
    /\ batchG[b].errChan < 1
    /\ reported' = reported \cup {CurrentJob(b)}
    /\ batchG' = [batchG EXCEPT ![b].tasks[t] = "done", ![b].twg = @ - 1,
                                ![b].errChan = @ + 1]
    /\ UNCHANGED <<jobIDs, jobBatches, mpc, mresult, bwg, bFinished, bErrChan,
                   started, invoked, loggedRecovered>>
    /\ UNCHANGED <<configLoaded, ctxDone>>
    /\ UNCHANGED <<batchVars, allocVars, treeVars, connectorVars, placementVars, lifecycleVars, goalstateVars, scalarVars>>

\* lines 116-119: twg.Wait() returns and finished is closed
TaskWaiter(b) ==
    /\ b \in Batches
    /\ batchG[b].finished = "open"
    /\ batchG[b].twg = 0
    /\ batchG' = [batchG EXCEPT ![b].finished = "closed"]
    /\ UNCHANGED <<jobIDs, jobBatches, mpc, mresult, bwg, bFinished, bErrChan,
                   started, invoked, reported, loggedRecovered>>
    /\ UNCHANGED <<configLoaded, ctxDone>>
    /\ UNCHANGED <<batchVars, allocVars, treeVars, connectorVars, placementVars, lifecycleVars, goalstateVars, scalarVars>>

\* lines 123-124, 131-132, 180, 141: select takes <-finished; the job is logged
\* as recovered, recoverJob returns nil and the loop goes to the next job
RecoverJobSelectFinished(b) ==
    /\ b \in Batches
    /\ batchG[b].pc = "select"
    /\ batchG[b].finished = "closed"
    /\ loggedRecovered' = loggedRecovered \cup {CurrentJob(b)}
    /\ batchG' = [batchG EXCEPT ![b].pc = "loop", ![b].idx = @ + 1,
                                ![b].tasks = <<>>, ![b].finished = "none",
                                ![b].errChan = 0]
    /\ UNCHANGED <<jobIDs, jobBatches, mpc, mresult, bwg, bFinished, bErrChan,
                   started, invoked, reported>>
    /\ UNCHANGED <<configLoaded, ctxDone>>
    /\ UNCHANGED <<batchVars, allocVars, treeVars, connectorVars, placementVars, lifecycleVars, goalstateVars, scalarVars>>

\* lines 125-128, 180-185: select takes err := <-errChan; recoverJob returns
\* the error and recoverJobsBatch goes to send it
RecoverJobSelectErr(b) ==
    /\ b \in Batches
    /\ batchG[b].pc = "select"
    /\ batchG[b].errChan > 0
    /\ batchG' = [batchG EXCEPT ![b].pc = "sendErr", ![b].errChan = @ - 1]
    /\ UNCHANGED <<jobIDs, jobBatches, mpc, mresult, bwg, bFinished, bErrChan,
                   started, invoked, reported, loggedRecovered>>
    /\ UNCHANGED <<configLoaded, ctxDone>>
    /\ UNCHANGED <<batchVars, allocVars, treeVars, connectorVars, placementVars, lifecycleVars, goalstateVars, scalarVars>>

\* lines 175-176, 184-185, 237: errChan <- err (capacity len(jobBatches)),
\* return, bwg.Done()
SendBatchErr(b) ==
    /\ b \in Batches
    /\ batchG[b].pc = "sendErr"
    /\ bErrChan < Len(jobBatches)
    /\ bErrChan' = bErrChan + 1
    /\ bwg' = bwg - 1
    /\ batchG' = [batchG EXCEPT ![b].pc = "done"]
    /\ UNCHANGED <<jobIDs, jobBatches, mpc, mresult, bFinished,
                   started, invoked, reported, loggedRecovered>>
    /\ UNCHANGED <<configLoaded, ctxDone>>
    /\ UNCHANGED <<batchVars, allocVars, treeVars, connectorVars, placementVars, lifecycleVars, goalstateVars, scalarVars>>

\* lines 141, 188, 237: the loop over batch.jobs ends; bwg.Done()
BatchLoopEnds(b) ==
    /\ b \in Batches
    /\ batchG[b].pc = "loop"
    /\ batchG[b].idx > Len(jobBatches[b])
    /\ bwg' = bwg - 1
    /\ batchG' = [batchG EXCEPT ![b].pc = "done"]
    /\ UNCHANGED <<jobIDs, jobBatches, mpc, mresult, bFinished, bErrChan,
                   started, invoked, reported, loggedRecovered>>
    /\ UNCHANGED <<configLoaded, ctxDone>>
    /\ UNCHANGED <<batchVars, allocVars, treeVars, connectorVars, placementVars, lifecycleVars, goalstateVars, scalarVars>>

\* lines 242-245: bwg.Wait() returns and finished is closed
BatchWaiter ==
    /\ bFinished = "open"
    /\ bwg = 0
    /\ bFinished' = "closed"
    /\ UNCHANGED <<jobIDs, jobBatches, mpc, mresult, bwg, bErrChan, batchG,
                   started, invoked, reported, loggedRecovered>>
    /\ UNCHANGED <<configLoaded, ctxDone>>
    /\ UNCHANGED <<batchVars, allocVars, treeVars, connectorVars, placementVars, lifecycleVars, goalstateVars, scalarVars>>

\* lines 249-258, 265: select takes <-finished; an error still buffered in
\* errChan is received and returned, otherwise nil is returned
SelectFinished ==
    /\ mpc = "select"
    /\ bFinished = "closed"
    /\ mpc' = "returned"
    /\ IF bErrChan # 0
       THEN mresult' = "err" /\ bErrChan' = bErrChan - 1
       ELSE mresult' = "nil" /\ UNCHANGED bErrChan
    /\ UNCHANGED <<jobIDs, jobBatches, bwg, bFinished, batchG,
                   started, invoked, reported, loggedRecovered>>
    /\ UNCHANGED <<configLoaded, ctxDone>>
    /\ UNCHANGED <<batchVars, allocVars, treeVars, connectorVars, placementVars, lifecycleVars, goalstateVars, scalarVars>>

\* lines 259-263: select takes err := <-errChan and returns it
SelectErr ==
    /\ mpc = "select"
    /\ bErrChan > 0
    /\ bErrChan' = bErrChan - 1
    /\ mpc' = "returned"
    /\ mresult' = "err"
    /\ UNCHANGED <<jobIDs, jobBatches, bwg, bFinished, batchG,
                   started, invoked, reported, loggedRecovered>>
    /\ UNCHANGED <<configLoaded, ctxDone>>
    /\ UNCHANGED <<batchVars, allocVars, treeVars, connectorVars, placementVars, lifecycleVars, goalstateVars, scalarVars>>

\* lines 191-196: ctx is the caller's, who may cancel it at any moment of the
\* run; recovery.go hands ctx to the store and to f and never reads
\* ctx.Done() or ctx.Err(), so nothing else changes
CancelContext ==
    /\ mpc = "select"
    /\ ~ctxDone
    /\ ctxDone' = TRUE
    /\ UNCHANGED <<jobIDs, jobBatches, mpc, mresult, bwg, bFinished, bErrChan,
                   batchG, started, invoked, reported, loggedRecovered,
                   configLoaded>>
    /\ UNCHANGED <<batchVars, allocVars, treeVars, connectorVars, placementVars, lifecycleVars, goalstateVars, scalarVars>>

NextRecovery ==
    \/ GetJobsByStatesFails
    \/ CancelContext
    \/ \E jobs \in JobLists : RecoverJobsByStateStart(jobs)
    \/ \E b \in Batches : LoadJobRuntimeFails(b)
    \/ \E b \in Batches : SkipTerminalJob(b)
    \/ \E b \in Batches : LoadJobConfigFails(b)
    \/ \E b \in Batches : StartRecoverJob(b)
    \/ \E b \in Batches : RecoverJobSelectFinished(b)
    \/ \E b \in Batches : RecoverJobSelectErr(b)
    \/ \E b \in Batches : SendBatchErr(b)
    \/ \E b \in Batches : BatchLoopEnds(b)
    \/ \E b \in Batches : TaskWaiter(b)
    \/ \E b \in Batches : \E t \in DOMAIN batchG[b].tasks : TaskRecoverOk(b, t)
    \/ \E b \in Batches : \E t \in DOMAIN batchG[b].tasks : TaskRecoverFails(b, t)
    \/ \E b \in Batches : \E t \in DOMAIN batchG[b].tasks : TaskSendErr(b, t)
    \/ BatchWaiter
    \/ SelectFinished
    \/ SelectErr

(***************************************************************************)
(* scalar/resources.go: Resources and Allocation                           *)
(*                                                                         *)
(* A float64 amount is a whole number of units of half the resource        *)
(* epsilon, so that amounts and differences below the epsilon exist.       *)
(***************************************************************************)
ResourceEpsilon == 2

Dimensions == {"CPU", "MEMORY", "DISK", "GPU"}

AllocationTypes ==
    {"NonPreemptibleAllocation", "PreemptibleAllocation",
     "ControllerAllocation", "TotalAllocation"}

ZeroResource == [CPU |-> 0, MEMORY |-> 0, DISK |-> 0, GPU |-> 0]

\* Resources.Add
ResourcesAdd(r, other) ==
    [CPU    |-> r.CPU + other.CPU,
     MEMORY |-> r.MEMORY + other.MEMORY,
     DISK   |-> r.DISK + other.DISK,
     GPU    |-> r.GPU + other.GPU]

\* a Subtract that keeps a difference below the epsilon
subtractDimensionKeepingSmall(from, value) ==
    IF from < value THEN 0 ELSE from - value

\* one dimension of Resources.Subtract
subtractDimension(from, value) ==
    IF from < value
    THEN 0
    ELSE IF from - value < ResourceEpsilon THEN 0 ELSE from - value

\* Resources.Subtract
ResourcesSubtract(r, other) ==
    [CPU    |-> subtractDimension(r.CPU, other.CPU),
     GPU    |-> subtractDimension(r.GPU, other.GPU),
     MEMORY |-> subtractDimension(r.MEMORY, other.MEMORY),
     DISK   |-> subtractDimension(r.DISK, other.DISK)]

initializeZeroAlloc == [t \in AllocationTypes |-> ZeroResource]

\* Allocation.Add
AllocationAdd(a, other) ==
    [t \in AllocationTypes |-> ResourcesAdd(a[t], other[t])]

\* Allocation.Subtract
AllocationSubtract(a, other) ==
    [t \in AllocationTypes |-> ResourcesSubtract(a[t], other[t])]

\* ConvertToResmgrResource
ConvertToResmgrResource(resource) ==
    [CPU    |-> resource.CpuLimit,
     DISK   |-> resource.DiskLimitMb,
     GPU    |-> resource.GpuLimit,
     MEMORY |-> resource.MemLimitMb]

\* a GetTaskAllocation without the else branch of lines 102-104: a
\* non-preemptible task is accounted under the total only
GetTaskAllocationWithoutElse(rmTask) ==
    LET taskResource == ConvertToResmgrResource(rmTask.Resource)
    IN  [t \in AllocationTypes |->
            CASE t = "PreemptibleAllocation" ->
                    IF rmTask.Preemptible THEN taskResource ELSE ZeroResource
              [] t = "NonPreemptibleAllocation" -> ZeroResource
              [] t = "ControllerAllocation" ->
                    IF rmTask.Type = "CONTROLLER" THEN taskResource ELSE ZeroResource
              [] t = "TotalAllocation" -> taskResource]

\* GetTaskAllocation
GetTaskAllocation(rmTask) ==
    LET taskResource == ConvertToResmgrResource(rmTask.Resource)
    IN  [t \in AllocationTypes |->
            CASE t = "PreemptibleAllocation" ->
                    IF rmTask.Preemptible THEN taskResource ELSE ZeroResource
              [] t = "NonPreemptibleAllocation" ->
                    IF rmTask.Preemptible THEN ZeroResource ELSE taskResource
              [] t = "ControllerAllocation" ->
                    IF rmTask.Type = "CONTROLLER" THEN taskResource ELSE ZeroResource
              [] t = "TotalAllocation" -> taskResource]

\* GetGangAllocation: the loop over gang.GetTasks()
RECURSIVE GetGangAllocation(_)
GetGangAllocation(gang) ==
    IF gang = <<>>
    THEN initializeZeroAlloc
    ELSE AllocationAdd(GetGangAllocation(SubSeq(gang, 1, Len(gang) - 1)),
                       GetTaskAllocation(gang[Len(gang)]))

\* task resource configs: one of whole epsilons, one with amounts that are not
TaskResourceConfigs ==
    {[CpuLimit |-> 2 * ResourceEpsilon, MemLimitMb |-> ResourceEpsilon,
      DiskLimitMb |-> 3 * ResourceEpsilon, GpuLimit |-> 0],
     [CpuLimit |-> ResourceEpsilon + 1, MemLimitMb |-> 1,
      DiskLimitMb |-> 0, GpuLimit |-> ResourceEpsilon]}

Tasks ==
    {[Resource |-> r, Preemptible |-> p, Type |-> ty] :
        r \in TaskResourceConfigs, p \in BOOLEAN, ty \in {"BATCH", "CONTROLLER"}}

\* gangs of one or two tasks
Gangs == {<<t>> : t \in Tasks} \cup {<<t, u>> : t, u \in Tasks}

\* the allocations GetTaskAllocation and GetGangAllocation produce
ProducedAllocations ==
    {GetTaskAllocation(t) : t \in Tasks} \cup {GetGangAllocation(g) : g \in Gangs}

MaxAllocOps == 3

\* every amount of the allocation is a whole number of epsilons
WholeEpsilons(a) ==
    \A t \in AllocationTypes : \A d \in Dimensions : a[t][d] % ResourceEpsilon = 0

InitAlloc ==
    /\ alloc = initializeZeroAlloc
    /\ held = EmptyBag
    /\ allocExact = TRUE
    /\ allocOps = <<>>

\* a = a.Add(other)
Add(other) ==
    /\ Len(allocOps) < MaxAllocOps
    /\ alloc' = AllocationAdd(alloc, other)
    /\ allocExact' = (allocExact /\ WholeEpsilons(other))
    /\ held' = IF allocExact' THEN held (+) SetToBag({other}) ELSE EmptyBag
    /\ allocOps' = Append(allocOps, "Add")
    /\ UNCHANGED <<batchVars, recoveryVars, treeVars, connectorVars, placementVars, lifecycleVars, goalstateVars, scalarVars>>

\* a = a.Subtract(other)
Subtract(other) ==
    /\ Len(allocOps) < MaxAllocOps
    /\ alloc' = AllocationSubtract(alloc, other)
    /\ allocExact' = (allocExact /\ BagIn(other, held))
    /\ held' = IF allocExact' THEN held (-) SetToBag({other}) ELSE EmptyBag
    /\ allocOps' = Append(allocOps, "Subtract")
    /\ UNCHANGED <<batchVars, recoveryVars, treeVars, connectorVars, placementVars, lifecycleVars, goalstateVars, scalarVars>>

NextAlloc ==
    \/ \E other \in ProducedAllocations : Add(other)
    \/ \E other \in ProducedAllocations : Subtract(other)

(***************************************************************************)
(* service.go, package respool: the resource pool tree                     *)
(*                                                                         *)
(* A resPool is an object on the heap; the tree, the children lists and    *)
(* the parent links hold references to objects.  The resPool type itself   *)
(* (NewRespool, Name, Parent, Children, SetParent, SetChildren,            *)
(* SetResourcePoolConfig) is not part of the sources at hand.              *)
(***************************************************************************)
RootResPoolID == "root"

ResourcePoolPathDelimiter == "/"

PoolIDs == {"a", "b", "c"}

\* the ids the configs passed in name as parent: the root and all pools but one,
\* so that trees of every depth are built while one pool stays a leaf
ParentIDs == {RootResPoolID, "a", "b"}

PoolNames == {"x", "y"}

\* a nil *peloton.ResourcePoolID (the root config's Parent)
NilID == "nil"

\* the most resPool objects in use at a time
MaxNodes == 4

\* A reference to a resPool object: the pool id it was made for and a number
\* telling apart the objects made for one id
Refs == (PoolIDs \cup {RootResPoolID}) \X (0 .. MaxNodes)

\* a nil ResPool
NilNode == <<NilID, 0>>

ResourcePoolConfigs ==
    {[Name |-> n, Parent |-> p] : n \in PoolNames, p \in ParentIDs}

\* what t.store.GetAllResourcePools can return
StoredConfigs == UNION {[ids -> ResourcePoolConfigs] : ids \in SUBSET PoolIDs}

\* the orders in which a Go map of pool ids can be ranged over
RangeOrders ==
    {o \in [1 .. Cardinality(PoolIDs) -> PoolIDs] :
        \A i, j \in DOMAIN o : i # j => o[i] # o[j]}

\* NewRespool(scope, ID, parent, config)
NewRespool(ID, parent, config) ==
    [ID |-> ID, parent |-> parent, children |-> <<>>, config |-> config]

\* resPool.Name()
Name(node) == node.config.Name

RECURSIVE FilterSeq(_, _)
FilterSeq(seq, keep) ==
    IF seq = <<>>
    THEN <<>>
    ELSE (IF seq[1] \in keep THEN <<seq[1]>> ELSE <<>>)
         \o FilterSeq(Tail(seq), keep)

\* the objects a program holding the given references can get to, through
\* parent links and children lists
RECURSIVE ReachableWithin(_, _, _)
ReachableWithin(n, h, refs) ==
    IF n = 0
    THEN refs
    ELSE LET prev == ReachableWithin(n - 1, h, refs)
         IN  prev
             \cup ({h[r].parent : r \in prev} \ {NilNode})
             \cup UNION {{h[r].children[k] : k \in DOMAIN h[r].children} : r \in prev}

\* the heap without the objects nothing refers to any more
Collected(h, rt, index) ==
    LET live == ReachableWithin(Cardinality(DOMAIN h), h,
                                ({rt} \ {NilNode}) \cup {index[id] : id \in DOMAIN index})
    IN  [r \in live |-> h[r]]

\* a reference for a new object made for the id
NewRef(h, ID) ==
    <<ID, CHOOSE n \in 0 .. MaxNodes :
              /\ <<ID, n>> \notin DOMAIN h
              /\ \A m \in 0 .. n - 1 : <<ID, m>> \in DOMAIN h>>

\* initTree, lines 362-367: the configs of the store with the root's config
WithRootConfig(resPoolConfigs) ==
    [id \in DOMAIN resPoolConfigs \cup {RootResPoolID} |->
        IF id = RootResPoolID
        THEN [Name |-> RootResPoolID, Parent |-> NilID]
        ELSE resPoolConfigs[id]]

\* getChildResPoolConfigs: the ids whose config names parentID as parent
getChildResPoolConfigs(parentID, resPoolConfigs) ==
    {id \in DOMAIN resPoolConfigs : resPoolConfigs[id].Parent = parentID}

\* the ids buildTree visits from the root: ids within n parent links of it
RECURSIVE BuiltWithin(_, _)
BuiltWithin(n, resPoolConfigs) ==
    IF n = 0
    THEN {RootResPoolID}
    ELSE LET prev == BuiltWithin(n - 1, resPoolConfigs)
         IN  prev \cup UNION {getChildResPoolConfigs(id, resPoolConfigs) : id \in prev}

\* buildTree: the objects it makes, one for each id it visits; each node's
\* children are the nodes built for the ids whose config names it as parent,
\* in the order the map of child configs is ranged over
buildTree(resPoolConfigs, order) ==
    LET built == BuiltWithin(Cardinality(PoolIDs), resPoolConfigs)
    IN  [r \in {<<id, 0>> : id \in built} |->
            LET id == r[1]
                kids == FilterSeq(order, getChildResPoolConfigs(id, resPoolConfigs))
            IN  [ID       |-> id,
                 parent   |-> IF id = RootResPoolID
                              THEN NilNode
                              ELSE <<resPoolConfigs[id].Parent, 0>>,
                 children |-> [k \in DOMAIN kids |-> <<kids[k], 0>>],
                 config   |-> resPoolConfigs[id]]]

\* lookupResPool: the node, or NilNode with an error
lookupResPool(index, ID) == IF ID \in DOMAIN index THEN index[ID] ELSE NilNode

\* walkTree
RECURSIVE walkTree(_, _, _)
walkTree(h, node, nodes) ==
    IF nodes = <<>>
    THEN node
    ELSE LET children == h[node].children
             matching == {k \in DOMAIN children : Name(h[children[k]]) = nodes[1]}
         IN  IF matching = {}
             THEN NilNode
             ELSE walkTree(h, children[CHOOSE k \in matching :
                                           \A m \in matching : k <= m],
                           Tail(nodes))

\* A path is the sequence of its characters, a pool name being one character.
\* strings.TrimSuffix / strings.TrimPrefix with the delimiter
TrimSuffix(path) ==
    IF path # <<>> /\ path[Len(path)] = ResourcePoolPathDelimiter
    THEN SubSeq(path, 1, Len(path) - 1)
    ELSE path

TrimPrefix(path) ==
    IF path # <<>> /\ path[1] = ResourcePoolPathDelimiter THEN Tail(path) ELSE path

\* trimPath
trimPath(path) == TrimPrefix(TrimSuffix(path))

\* strings.Split(s, delimiter): the pieces between delimiters, each piece the
\* sequence of its characters; a string without delimiter is one piece
RECURSIVE Split(_)
Split(str) ==
    LET cuts == {i \in DOMAIN str : str[i] = ResourcePoolPathDelimiter}
    IN  IF cuts = {}
        THEN <<str>>
        ELSE LET i == CHOOSE c \in cuts : \A d \in cuts : c <= d
             IN  <<SubSeq(str, 1, i - 1)>> \o Split(SubSeq(str, i + 1, Len(str)))

\* a piece as a name: a one-character piece is that name; any other piece
\* ("" or several names run together) is the name of no pool
PieceName(piece) == IF Len(piece) = 1 THEN piece[1] ELSE "?"

\* GetByPath: the node, or NilNode with an error
GetByPath(h, rt, path) ==
    IF rt = NilNode
    THEN NilNode
    ELSE IF path = <<ResourcePoolPathDelimiter>>
    THEN rt
    ELSE LET pieces == Split(trimPath(path))
         IN  walkTree(h, rt, [k \in DOMAIN pieces |-> PieceName(pieces[k])])

InitTree ==
    /\ root = NilNode
    /\ resPools = <<>>
    /\ heap = <<>>
    /\ updatedChan = 0
    /\ lastOp = [op |-> "NewTree", err |-> FALSE, deleted |-> {}]

\* initTree and buildTree over the stored configs
initTree(stored, order) ==
    LET resPoolConfigs == WithRootConfig(stored)
    IN  /\ Cardinality(BuiltWithin(Cardinality(PoolIDs), resPoolConfigs)) <= MaxNodes
        /\ heap' = buildTree(resPoolConfigs, order)
        /\ resPools' = [id \in BuiltWithin(Cardinality(PoolIDs), resPoolConfigs) |->
                           <<id, 0>>]
        /\ root' = <<RootResPoolID, 0>>

\* Start, called when leadership is gained: on a tree that is not started
Start ==
    /\ root = NilNode
    /\ \E stored \in StoredConfigs : \E order \in RangeOrders : initTree(stored, order)
    /\ lastOp' = [op |-> "Start", err |-> FALSE, deleted |-> {}]
    /\ UNCHANGED updatedChan
    /\ UNCHANGED <<batchVars, recoveryVars, allocVars, connectorVars, placementVars, lifecycleVars, goalstateVars, scalarVars>>

\* Start when the store fails: the error is returned
StartFails ==
    /\ root = NilNode
    /\ lastOp' = [op |-> "Start", err |-> TRUE, deleted |-> {}]
    /\ UNCHANGED <<root, resPools, heap, updatedChan>>
    /\ UNCHANGED <<batchVars, recoveryVars, allocVars, connectorVars, placementVars, lifecycleVars, goalstateVars, scalarVars>>

\* Stop
Stop ==
    /\ root' = NilNode
    /\ resPools' = <<>>
    /\ heap' = <<>>
    /\ lastOp' = [op |-> "Stop", err |-> FALSE, deleted |-> {}]
    /\ UNCHANGED updatedChan
    /\ UNCHANGED <<batchVars, recoveryVars, allocVars, connectorVars, placementVars, lifecycleVars, goalstateVars, scalarVars>>

\* the non-blocking send on updatedChan, lines 549-552
Signalled == IF updatedChan < 1 THEN updatedChan + 1 ELSE updatedChan

\* Upsert looking the parent up only when it adds a node
UpsertLookingUpParentOnAdd(ID, resPoolConfig) ==
    LET parent == lookupResPool(resPools, resPoolConfig.Parent)
        resourcePool == lookupResPool(resPools, ID)
    IN  IF resourcePool # NilNode
        THEN /\ heap' = [heap EXCEPT ![resourcePool].config = resPoolConfig]
             /\ resPools' = [resPools EXCEPT ![ID] = resourcePool]
             /\ updatedChan' = Signalled
             /\ lastOp' = [op |-> "Upsert", err |-> FALSE, deleted |-> {}]
             /\ UNCHANGED root
        ELSE IF parent = NilNode
        THEN /\ lastOp' = [op |-> "Upsert", err |-> TRUE, deleted |-> {}]
             /\ UNCHANGED <<root, resPools, heap, updatedChan>>
        ELSE /\ Cardinality(DOMAIN heap) < MaxNodes
             /\ LET new == NewRef(heap, ID)
                IN  /\ heap' = [r \in DOMAIN heap \cup {new} |->
                                   IF r = new
                                   THEN NewRespool(ID, parent, resPoolConfig)
                                   ELSE IF r = parent
                                   THEN [heap[r] EXCEPT !.children = Append(@, new)]
                                   ELSE heap[r]]
                    /\ resPools' = [id \in DOMAIN resPools \cup {ID} |->
                                       IF id = ID THEN new ELSE resPools[id]]
             /\ updatedChan' = Signalled
             /\ lastOp' = [op |-> "Upsert", err |-> FALSE, deleted |-> {}]
             /\ UNCHANGED root

\* Upsert
Upsert(ID, resPoolConfig) ==
    LET parent == lookupResPool(resPools, resPoolConfig.Parent)
        resourcePool == lookupResPool(resPools, ID)
    IN  IF parent = NilNode
        THEN \* parent does not exist
             /\ lastOp' = [op |-> "Upsert", err |-> TRUE, deleted |-> {}]
             /\ UNCHANGED <<root, resPools, heap, updatedChan>>
        ELSE IF resourcePool # NilNode
        THEN \* update the existing respool
             /\ heap' = [heap EXCEPT ![resourcePool].config = resPoolConfig]
             /\ resPools' = [resPools EXCEPT ![ID] = resourcePool]
             /\ updatedChan' = Signalled
             /\ lastOp' = [op |-> "Upsert", err |-> FALSE, deleted |-> {}]
             /\ UNCHANGED root
        ELSE \* add a respool and link the parent to it
             /\ Cardinality(DOMAIN heap) < MaxNodes
             /\ LET new == NewRef(heap, ID)
                IN  /\ heap' = [r \in DOMAIN heap \cup {new} |->
                                   IF r = new
                                   THEN NewRespool(ID, parent, resPoolConfig)
                                   ELSE IF r = parent
                                   THEN [heap[r] EXCEPT !.children = Append(@, new)]
                                   ELSE heap[r]]
                    /\ resPools' = [id \in DOMAIN resPools \cup {ID} |->
                                       IF id = ID THEN new ELSE resPools[id]]
             /\ updatedChan' = Signalled
             /\ lastOp' = [op |-> "Upsert", err |-> FALSE, deleted |-> {}]
             /\ UNCHANGED root

UpsertCall(ID, resPoolConfig) ==
    /\ Upsert(ID, resPoolConfig)
    /\ UNCHANGED <<batchVars, recoveryVars, allocVars, connectorVars, placementVars, lifecycleVars, goalstateVars, scalarVars>>

\* the ids of the nodes in a node's children list
ChildIDs(h, node) == {h[h[node].children[k]].ID : k \in DOMAIN h[node].children}

\* the children other than those with the given id, in order
RECURSIVE WithoutID(_, _, _)
WithoutID(h, children, ID) ==
    IF children = <<>>
    THEN <<>>
    ELSE (IF h[children[1]].ID # ID THEN <<children[1]>> ELSE <<>>)
         \o WithoutID(h, Tail(children), ID)

\* Delete taking only the node itself out of the index
DeleteLeavingChildrenIndexed(respoolID) ==
    LET resPool == lookupResPool(resPools, respoolID)
    IN  IF resPool = NilNode \/ heap[resPool].parent = NilNode
        THEN /\ lastOp' = [op |-> "Delete", err |-> TRUE, deleted |-> {}]
             /\ UNCHANGED <<root, resPools, heap, updatedChan>>
        ELSE LET parent == heap[resPool].parent
                 gone == {respoolID}
                 index == [id \in DOMAIN resPools \ gone |-> resPools[id]]
             IN  /\ heap' = Collected([heap EXCEPT ![parent].children =
                                          WithoutID(heap, @, respoolID)],
                                      root, index)
                 /\ resPools' = index
                 /\ lastOp' = [op |-> "Delete", err |-> FALSE,
                               deleted |-> ChildIDs(heap, resPool) \cup {respoolID}]
                 /\ UNCHANGED <<root, updatedChan>>

\* Delete
Delete(respoolID) ==
    LET resPool == lookupResPool(resPools, respoolID)
    IN  IF resPool = NilNode \/ heap[resPool].parent = NilNode
        THEN \* not found, or parent is nil
             /\ lastOp' = [op |-> "Delete", err |-> TRUE, deleted |-> {}]
             /\ UNCHANGED <<root, resPools, heap, updatedChan>>
        ELSE LET parent == heap[resPool].parent
                 gone == ChildIDs(heap, resPool) \cup {respoolID}
                 index == [id \in DOMAIN resPools \ gone |-> resPools[id]]
             IN  /\ heap' = Collected([heap EXCEPT ![parent].children =
                                          WithoutID(heap, @, respoolID)],
                                      root, index)
                 /\ resPools' = index
                 /\ lastOp' = [op |-> "Delete", err |-> FALSE, deleted |-> gone]
                 /\ UNCHANGED <<root, updatedChan>>

DeleteCall(respoolID) ==
    /\ Delete(respoolID)
    /\ UNCHANGED <<batchVars, recoveryVars, allocVars, connectorVars, placementVars, lifecycleVars, goalstateVars, scalarVars>>

\* a consumer receives from UpdatedChannel()
ReceiveUpdated ==
    /\ updatedChan > 0
    /\ updatedChan' = updatedChan - 1
    /\ UNCHANGED <<root, resPools, heap, lastOp>>
    /\ UNCHANGED <<batchVars, recoveryVars, allocVars, connectorVars, placementVars, lifecycleVars, goalstateVars, scalarVars>>

NextTree ==
    \/ Start
    \/ StartFails
    \/ Stop
    \/ \E ID \in PoolIDs :
          \E resPoolConfig \in ResourcePoolConfigs : UpsertCall(ID, resPoolConfig)
    \/ \E ID \in PoolIDs \cup {RootResPoolID} : DeleteCall(ID)
    \/ ReceiveUpdated

(***************************************************************************)
(* storage/cassandra: the connector                                        *)
(*                                                                         *)
(* Callers call the connector concurrently; a call builds its statement    *)
(* and then runs one query on the session, which the database serves       *)
(* atomically.  INSERT and UPDATE write the row whether or not one is      *)
(* stored, INSERT ... IF NOT EXISTS only when none is.  A query that fails *)
(* (a timeout) may or may not have been applied.                           *)
(***************************************************************************)
useCasWrite == TRUE

defaultRetryAttempts == 5

\* the most callers at a time
MaxCallers == 2

Callers == 1 .. MaxCallers

PrimaryKeys == {"k1", "k2"}

NoRow == 0

\* the row a caller writes: its content tells the caller
RowOf(p) == p

NoCall == [op |-> "none", key |-> "none", row |-> NoRow, pc |-> "idle",
           err |-> "none", attempts |-> 0]

InitConnector ==
    /\ rows = [k \in PrimaryKeys |-> NoRow]
    /\ calls = [p \in Callers |-> NoCall]
    /\ ExecuteSuccess = 0
    /\ ExecuteFail = 0

\* a call up to its query: the statement is built, or the call returns the error
Prepared(p, op, key, row) ==
    /\ calls[p].pc = "idle"
    /\ \/ calls' = [calls EXCEPT ![p] = [op |-> op, key |-> key, row |-> row,
                                         pc |-> "query", err |-> "none",
                                         attempts |-> 0]]
       \/ calls' = [calls EXCEPT ![p] = [op |-> op, key |-> key, row |-> row,
                                         pc |-> "returned", err |-> "StmtError",
                                         attempts |-> 0]]
    /\ UNCHANGED <<rows, ExecuteSuccess, ExecuteFail>>

\* create, lines 246-268
create(p, key, row, casWrite) ==
    Prepared(p, IF casWrite THEN "CreateIfNotExists" ELSE "Create", key, row)

CreateIfNotExists(p, key, row) ==
    /\ create(p, key, row, useCasWrite)
    /\ UNCHANGED <<batchVars, recoveryVars, allocVars, treeVars, placementVars, lifecycleVars, goalstateVars, scalarVars>>

Create(p, key, row) ==
    /\ create(p, key, row, ~useCasWrite)
    /\ UNCHANGED <<batchVars, recoveryVars, allocVars, treeVars, placementVars, lifecycleVars, goalstateVars, scalarVars>>

\* Update, lines 408-440
Update(p, key, row) ==
    /\ Prepared(p, "Update", key, row)
    /\ UNCHANGED <<batchVars, recoveryVars, allocVars, treeVars, placementVars, lifecycleVars, goalstateVars, scalarVars>>

\* Delete, lines 375-396
ConnectorDelete(p, key) ==
    /\ Prepared(p, "Delete", key, NoRow)
    /\ UNCHANGED <<batchVars, recoveryVars, allocVars, treeVars, placementVars, lifecycleVars, goalstateVars, scalarVars>>

Returned(p, err) ==
    [calls EXCEPT ![p].pc = "returned", ![p].err = err, ![p].attempts = @ + 1]

\* create with casWrite taking an insert that was not applied for a success
MapScanCASReturnsIgnoringApplied(p) ==
    /\ calls[p].pc = "query"
    /\ calls[p].op = "CreateIfNotExists"
    /\ LET key == calls[p].key
       IN  \/ /\ \/ UNCHANGED rows
                 \/ /\ rows[key] = NoRow
                    /\ rows' = [rows EXCEPT ![key] = calls[p].row]
              /\ ExecuteFail' = ExecuteFail + 1
              /\ calls' = Returned(p, "QueryError")
              /\ UNCHANGED ExecuteSuccess
           \/ /\ rows' = IF rows[key] = NoRow
                          THEN [rows EXCEPT ![key] = calls[p].row]
                          ELSE rows
              /\ ExecuteSuccess' = ExecuteSuccess + 1
              /\ calls' = Returned(p, "nil")
              /\ UNCHANGED ExecuteFail
    /\ UNCHANGED <<batchVars, recoveryVars, allocVars, treeVars, placementVars, lifecycleVars, goalstateVars, scalarVars>>

\* create with casWrite, lines 272-281 and 287-288: q.MapScanCAS returns
\* whether the insert was applied, or an error
MapScanCASReturns(p) ==
    /\ calls[p].pc = "query"
    /\ calls[p].op = "CreateIfNotExists"
    /\ LET key == calls[p].key
       IN  \/ \* err != nil
              /\ \/ UNCHANGED rows
                 \/ /\ rows[key] = NoRow
                    /\ rows' = [rows EXCEPT ![key] = calls[p].row]
              /\ ExecuteFail' = ExecuteFail + 1
              /\ calls' = Returned(p, "QueryError")
              /\ UNCHANGED ExecuteSuccess
           \/ \* !applied
              /\ rows[key] # NoRow
              /\ calls' = Returned(p, "AlreadyExists")
              /\ UNCHANGED <<rows, ExecuteSuccess, ExecuteFail>>
           \/ \* applied
              /\ rows[key] = NoRow
              /\ rows' = [rows EXCEPT ![key] = calls[p].row]
              /\ ExecuteSuccess' = ExecuteSuccess + 1
              /\ calls' = Returned(p, "nil")
              /\ UNCHANGED ExecuteFail
    /\ UNCHANGED <<batchVars, recoveryVars, allocVars, treeVars, placementVars, lifecycleVars, goalstateVars, scalarVars>>

\* what the statement of a call without CAS makes of the table
Applied(p) ==
    [rows EXCEPT ![calls[p].key] =
        IF calls[p].op = "Delete" THEN NoRow ELSE calls[p].row]

\* create without casWrite (lines 282-288), Delete (398-404), Update
\* (443-449): q.Exec returns nil or an error
ExecReturns(p) ==
    /\ calls[p].pc = "query"
    /\ calls[p].op \in {"Create", "Update", "Delete"}
    /\ \/ \* err != nil
          /\ \/ UNCHANGED rows
             \/ rows' = Applied(p)
          /\ ExecuteFail' = ExecuteFail + 1
          /\ calls' = Returned(p, "QueryError")
          /\ UNCHANGED ExecuteSuccess
       \/ /\ rows' = Applied(p)
          /\ ExecuteSuccess' = ExecuteSuccess + 1
          /\ calls' = Returned(p, "nil")
          /\ UNCHANGED ExecuteFail
    /\ UNCHANGED <<batchVars, recoveryVars, allocVars, treeVars, placementVars, lifecycleVars, goalstateVars, scalarVars>>

NextConnector ==
    \/ \E p \in Callers : \E key \in PrimaryKeys : CreateIfNotExists(p, key, RowOf(p))
    \/ \E p \in Callers : \E key \in PrimaryKeys : Create(p, key, RowOf(p))
    \/ \E p \in Callers : \E key \in PrimaryKeys : Update(p, key, RowOf(p))
    \/ \E p \in Callers : \E key \in PrimaryKeys : ConnectorDelete(p, key)
    \/ \E p \in Callers : MapScanCASReturns(p)
    \/ \E p \in Callers : ExecReturns(p)

(***************************************************************************)
(* placement/tasks: the task service of the placement engine               *)
(*                                                                         *)
(* The resource manager holds a queue of gangs.  The placement engine      *)
(* dequeues gangs as assignments, hands the placements it found to         *)
(* SetPlacements and the tasks it could not place to Enqueue.              *)
(***************************************************************************)
TaskTypes == {"BATCH", "STATELESS"}

\* s.config.MaxDurations and s.config.MaxRounds, by task type
MaxDurations == [type \in TaskTypes |-> IF type = "BATCH" THEN 1 ELSE 2]

MaxRounds == [type \in TaskTypes |-> IF type = "BATCH" THEN 0 ELSE 1]

\* the most gangs queued at the start, and the most tasks in them together
MaxGangs == 2

MaxTasks == 3

\* the latest time.Now()
MaxNow == 0

EnqueueReasons == {"set_placement_failed", "no_offer"}

\* a gang of the tasks at the resource manager: gang g has the tasks
\* <<g, 1>>, <<g, 2>>, ... with the given types
GangOf(g, types) == [k \in DOMAIN types |-> [id |-> <<g, k>>, type |-> types[k]]]

GangShapes == UNION {[1 .. n -> TaskTypes] : n \in 0 .. MaxTasks}

RECURSIVE Flatten(_)
Flatten(seqs) == IF seqs = <<>> THEN <<>> ELSE Head(seqs) \o Flatten(Tail(seqs))

GangQueues ==
    UNION {{[g \in 1 .. n |-> GangOf(g, shapes[g])] :
               shapes \in {sh \in [1 .. n -> GangShapes] : Len(Flatten(sh)) <= MaxTasks}} :
           n \in 0 .. MaxGangs}

\* the resource manager starts with the given gangs waiting
InitPlacement(queue) ==
    /\ rmQueue = queue
    /\ assignments = <<>>
    /\ placed = {}
    /\ returned = {}
    /\ enqueuedGangs = {}
    /\ SetPlacementSuccess = 0

\* createTasks with every task's deadline taken from its own type
createTasksWithOwnDurations(gang, now) ==
    IF Len(gang) = 0
    THEN <<>>
    ELSE [k \in DOMAIN gang |->
             [task |-> gang[k], gang |-> gang,
              deadline |-> now + MaxDurations[gang[k].type],
              maxRounds |-> MaxRounds[gang[1].type]]]

\* createTasks: models.NewTask(gang, task, deadline, maxRounds) for each task
createTasks(gang, now) ==
    IF Len(gang) = 0
    THEN <<>>
    ELSE LET maxRounds == MaxRounds[gang[1].type]
             duration == MaxDurations[gang[1].type]
             deadline == now + duration
         IN  [k \in DOMAIN gang |->
                 [task |-> gang[k], gang |-> gang,
                  deadline |-> deadline, maxRounds |-> maxRounds]]

\* Dequeue: the resource manager answers DequeueGangs with an error or with
\* the first gangs of its queue, at most batchSize of them
Dequeue(batchSize, failed, numGangs, now) ==
    /\ assignments = <<>>
    /\ IF failed
       THEN /\ assignments' = <<>>
            /\ UNCHANGED rmQueue
       ELSE /\ numGangs <= batchSize
            /\ numGangs <= Len(rmQueue)
            /\ LET gangs == SubSeq(rmQueue, 1, numGangs)
               IN  assignments' =
                       Flatten([g \in DOMAIN gangs |-> createTasks(gangs[g], now)])
            /\ rmQueue' = SubSeq(rmQueue, numGangs + 1, Len(rmQueue))
    /\ UNCHANGED <<placed, returned, enqueuedGangs, SetPlacementSuccess>>
    /\ UNCHANGED <<batchVars, recoveryVars, allocVars, treeVars, connectorVars, lifecycleVars, goalstateVars, scalarVars>>

\* the assignments without those of the given tasks
Without(tasks) ==
    LET keep == {k \in DOMAIN assignments : assignments[k].task.id \notin tasks}
        RECURSIVE Pick(_)
        Pick(k) == IF k > Len(assignments)
                   THEN <<>>
                   ELSE (IF k \in keep THEN <<assignments[k]>> ELSE <<>>) \o Pick(k + 1)
    IN  Pick(1)

\* SetPlacements with the placements of the given tasks: the resource manager
\* accepts some of them; it accepts all when it answers without error
SetPlacements(tasks, outcome, accepted) ==
    /\ tasks \subseteq {assignments[k].task.id : k \in DOMAIN assignments}
    /\ accepted \subseteq tasks
    /\ IF tasks = {}
       THEN UNCHANGED <<placed, SetPlacementSuccess>>
       ELSE IF outcome \in {"rpc error", "response error"}
       THEN /\ accepted # tasks
            /\ placed' = placed \cup accepted
            /\ UNCHANGED SetPlacementSuccess
       ELSE /\ accepted = tasks
            /\ placed' = placed \cup accepted
            /\ SetPlacementSuccess' = SetPlacementSuccess + Cardinality(tasks)
    /\ assignments' = Without(tasks)
    /\ UNCHANGED <<rmQueue, returned, enqueuedGangs>>
    /\ UNCHANGED <<batchVars, recoveryVars, allocVars, treeVars, connectorVars, lifecycleVars, goalstateVars, scalarVars>>

\* Enqueue: each task goes back with the reason as a gang of its own, unless
\* the request fails; the gangs sent back are kept in returned
Enqueue(tasks, reason, failed) ==
    /\ tasks \subseteq {assignments[k].task.id : k \in DOMAIN assignments}
    /\ IF tasks = {} \/ failed
       THEN UNCHANGED <<returned, enqueuedGangs>>
       ELSE /\ returned' = returned \cup {<<t, reason>> : t \in tasks}
            /\ enqueuedGangs' = enqueuedGangs \cup {{t} : t \in tasks}
    /\ assignments' = Without(tasks)
    /\ UNCHANGED <<rmQueue, placed, SetPlacementSuccess>>
    /\ UNCHANGED <<batchVars, recoveryVars, allocVars, treeVars, connectorVars, lifecycleVars, goalstateVars, scalarVars>>

NextPlacement ==
    \/ \E batchSize \in 1 .. MaxGangs : \E failed \in BOOLEAN :
          \E numGangs \in 0 .. MaxGangs : \E now \in 0 .. MaxNow :
              Dequeue(batchSize, failed, numGangs, now)
    \/ \E tasks \in SUBSET {assignments[k].task.id : k \in DOMAIN assignments} :
          \E outcome \in {"ok", "rpc error", "response error"} :
              \E accepted \in SUBSET tasks : SetPlacements(tasks, outcome, accepted)
    \/ \E tasks \in SUBSET {assignments[k].task.id : k \in DOMAIN assignments} :
          \E reason \in EnqueueReasons : \E failed \in BOOLEAN :
              Enqueue(tasks, reason, failed)

(***************************************************************************)
(* lifecyclemgr: the v1 lifecycle manager                                  *)
(*                                                                         *)
(* Launch and Kill pass requests on to the host manager, behind a rate     *)
(* limiter and, for Kill, behind the kill lock.                            *)
(***************************************************************************)
\* the most calls of the lifecycle manager, the most pods of one Launch and
\* the burst of the rate limiter
MaxLifecycleCalls == 3

MaxPods == 2

Burst == 1

MetricNames == {"Launch", "LaunchFail", "LaunchRateLimit",
                "Kill", "KillFail", "KillRateLimit", "Shutdown"}

HostRequests == {"LaunchPods", "KillPods"}

\* newV1LifecycleMgr: lockState{state: 0}, fresh metrics
InitLifecycle ==
    /\ lockKill = FALSE
    /\ tokens = Burst
    /\ hostCalls = [r \in HostRequests |-> 0]
    /\ podsSent = 0
    /\ metrics = [m \in MetricNames |-> 0]
    /\ lcOp = [op |-> "none", err |-> "nil", n |-> 0]
    /\ killChecked = 0

\* lockState: setting, clearing and reading the kill lock
LockKill ==
    /\ lockKill' = TRUE
    /\ UNCHANGED <<tokens, hostCalls, podsSent, metrics, lcOp>>
    /\ UNCHANGED killChecked
    /\ UNCHANGED <<batchVars, recoveryVars, allocVars, treeVars, connectorVars, placementVars, goalstateVars, scalarVars>>

UnlockKill ==
    /\ lockKill' = FALSE
    /\ UNCHANGED <<tokens, hostCalls, podsSent, metrics, lcOp>>
    /\ UNCHANGED killChecked
    /\ UNCHANGED <<batchVars, recoveryVars, allocVars, treeVars, connectorVars, placementVars, goalstateVars, scalarVars>>

hasKillLock == lockKill

\* rateLimiter != nil && !rateLimiter.Allow(): Allow takes a token when there
\* is one; without a rate limiter nothing is taken
Denied(limited) == limited /\ tokens = 0

TokensAfter(limited) == IF limited /\ tokens > 0 THEN tokens - 1 ELSE tokens

\* the rate limiter gains a token as time passes, up to its burst
Refill ==
    /\ tokens < Burst
    /\ tokens' = tokens + 1
    /\ UNCHANGED <<lockKill, hostCalls, podsSent, metrics, lcOp>>
    /\ UNCHANGED killChecked
    /\ UNCHANGED <<batchVars, recoveryVars, allocVars, treeVars, connectorVars, placementVars, goalstateVars, scalarVars>>

Inc(name, n) == [metrics EXCEPT ![name] = @ + n]

Sent(request) == [hostCalls EXCEPT ![request] = @ + 1]

LcReturned(op, err) == [op |-> op, err |-> err, n |-> lcOp.n + 1]

\* Launch asking the rate limiter only after the request was sent
LaunchSendingBeforeRateLimit(numPods, limited, failed) ==
    /\ lcOp.n < MaxLifecycleCalls
    /\ IF numPods = 0
       THEN /\ lcOp' = LcReturned("Launch", "errEmptyPods")
            /\ UNCHANGED <<tokens, hostCalls, podsSent, metrics>>
       ELSE /\ hostCalls' = Sent("LaunchPods")
            /\ podsSent' = podsSent + numPods
            /\ IF Denied(limited)
               THEN /\ metrics' = Inc("LaunchRateLimit", 1)
                    /\ lcOp' = LcReturned("Launch", "ResourceExhausted")
                    /\ UNCHANGED tokens
               ELSE /\ tokens' = TokensAfter(limited)
                    /\ IF failed
                       THEN /\ metrics' = Inc("LaunchFail", numPods)
                            /\ lcOp' = LcReturned("Launch", "RequestError")
                       ELSE /\ metrics' = Inc("Launch", numPods)
                            /\ lcOp' = LcReturned("Launch", "nil")
    /\ UNCHANGED lockKill
    /\ UNCHANGED killChecked
    /\ UNCHANGED <<batchVars, recoveryVars, allocVars, treeVars, connectorVars, placementVars, goalstateVars, scalarVars>>

\* Launch counting a failed request as one failure whatever its size
LaunchCountingRequests(numPods, limited, failed) ==
    /\ lcOp.n < MaxLifecycleCalls
    /\ IF numPods = 0
       THEN /\ lcOp' = LcReturned("Launch", "errEmptyPods")
            /\ UNCHANGED <<tokens, hostCalls, podsSent, metrics>>
       ELSE IF Denied(limited)
       THEN /\ metrics' = Inc("LaunchRateLimit", 1)
            /\ lcOp' = LcReturned("Launch", "ResourceExhausted")
            /\ UNCHANGED <<tokens, hostCalls, podsSent>>
       ELSE /\ tokens' = TokensAfter(limited)
            /\ hostCalls' = Sent("LaunchPods")
            /\ podsSent' = podsSent + numPods
            /\ IF failed
               THEN /\ metrics' = Inc("LaunchFail", 1)
                    /\ lcOp' = LcReturned("Launch", "RequestError")
               ELSE /\ metrics' = Inc("Launch", numPods)
                    /\ lcOp' = LcReturned("Launch", "nil")
    /\ UNCHANGED lockKill
    /\ UNCHANGED killChecked
    /\ UNCHANGED <<batchVars, recoveryVars, allocVars, treeVars, connectorVars, placementVars, goalstateVars, scalarVars>>

\* Launch of numPods pods; limited: a rate limiter is given; failed: the
\* LaunchPods request fails
Launch(numPods, limited, failed) ==
    /\ lcOp.n < MaxLifecycleCalls
    /\ IF numPods = 0
       THEN /\ lcOp' = LcReturned("Launch", "errEmptyPods")
            /\ UNCHANGED <<tokens, hostCalls, podsSent, metrics>>
       ELSE IF Denied(limited)
       THEN /\ metrics' = Inc("LaunchRateLimit", 1)
            /\ lcOp' = LcReturned("Launch", "ResourceExhausted")
            /\ UNCHANGED <<tokens, hostCalls, podsSent>>
       ELSE /\ tokens' = TokensAfter(limited)
            /\ hostCalls' = Sent("LaunchPods")
            /\ podsSent' = podsSent + numPods
            /\ IF failed
               THEN /\ metrics' = Inc("LaunchFail", numPods)
                    /\ lcOp' = LcReturned("Launch", "RequestError")
               ELSE /\ metrics' = Inc("Launch", numPods)
                    /\ lcOp' = LcReturned("Launch", "nil")
    /\ UNCHANGED lockKill
    /\ UNCHANGED killChecked
    /\ UNCHANGED <<batchVars, recoveryVars, allocVars, treeVars, connectorVars, placementVars, goalstateVars, scalarVars>>

\* Kill that does not look at the kill lock
KillIgnoringLock(limited, failed) ==
    /\ lcOp.n < MaxLifecycleCalls
    /\ IF Denied(limited)
       THEN /\ metrics' = Inc("KillFail", 1)
            /\ lcOp' = LcReturned("Kill", "ResourceExhausted")
            /\ UNCHANGED <<tokens, hostCalls, podsSent>>
       ELSE /\ tokens' = TokensAfter(limited)
            /\ hostCalls' = Sent("KillPods")
            /\ UNCHANGED podsSent
            /\ IF failed
               THEN /\ metrics' = Inc("KillFail", 1)
                    /\ lcOp' = LcReturned("Kill", "RequestError")
               ELSE /\ metrics' = Inc("Kill", 1)
                    /\ lcOp' = LcReturned("Kill", "nil")
    /\ UNCHANGED lockKill
    /\ UNCHANGED killChecked
    /\ UNCHANGED <<batchVars, recoveryVars, allocVars, treeVars, connectorVars, placementVars, goalstateVars, scalarVars>>

\* Kill of one pod; limited: a rate limiter is given; failed: the KillPods
\* request fails
Kill(limited, failed) ==
    /\ lcOp.n < MaxLifecycleCalls
    /\ IF hasKillLock
       THEN /\ metrics' = Inc("KillRateLimit", 1)
            /\ lcOp' = LcReturned("Kill", "Internal")
            /\ UNCHANGED <<tokens, hostCalls, podsSent>>
       ELSE IF Denied(limited)
       THEN /\ metrics' = Inc("KillFail", 1)
            /\ lcOp' = LcReturned("Kill", "ResourceExhausted")
            /\ UNCHANGED <<tokens, hostCalls, podsSent>>
       ELSE /\ tokens' = TokensAfter(limited)
            /\ hostCalls' = Sent("KillPods")
            /\ UNCHANGED podsSent
            /\ IF failed
               THEN /\ metrics' = Inc("KillFail", 1)
                    /\ lcOp' = LcReturned("Kill", "RequestError")
               ELSE /\ metrics' = Inc("Kill", 1)
                    /\ lcOp' = LcReturned("Kill", "nil")
    /\ UNCHANGED lockKill
    /\ UNCHANGED killChecked
    /\ UNCHANGED <<batchVars, recoveryVars, allocVars, treeVars, connectorVars, placementVars, goalstateVars, scalarVars>>

\* ShutdownExecutor does nothing but count
ShutdownExecutor ==
    /\ lcOp.n < MaxLifecycleCalls
    /\ metrics' = Inc("Shutdown", 1)
    /\ lcOp' = LcReturned("ShutdownExecutor", "nil")
    /\ UNCHANGED <<lockKill, tokens, hostCalls, podsSent>>
    /\ UNCHANGED killChecked
    /\ UNCHANGED <<batchVars, recoveryVars, allocVars, treeVars, connectorVars, placementVars, goalstateVars, scalarVars>>

(***************************************************************************)
(* Kill called concurrently with the toggling of the kill lock: the lock   *)
(* check of lines 132-135 and the rest of Kill, lines 137-153, are two     *)
(* steps, with nothing held in between.                                    *)
(***************************************************************************)
\* lines 132-135: the check of the kill lock
KillChecksLock ==
    /\ lcOp.n + killChecked < MaxLifecycleCalls
    /\ IF hasKillLock
       THEN /\ metrics' = Inc("KillRateLimit", 1)
            /\ lcOp' = LcReturned("Kill", "Internal")
            /\ UNCHANGED killChecked
       ELSE /\ killChecked' = killChecked + 1
            /\ UNCHANGED <<metrics, lcOp>>
    /\ UNCHANGED <<lockKill, tokens, hostCalls, podsSent>>
    /\ UNCHANGED <<batchVars, recoveryVars, allocVars, treeVars, connectorVars, placementVars, goalstateVars, scalarVars>>

\* lines 137-153: the rate limiter and the KillPods request of a call that
\* has passed the check
KillGoesOn(limited, failed) ==
    /\ killChecked > 0
    /\ killChecked' = killChecked - 1
    /\ IF Denied(limited)
       THEN /\ metrics' = Inc("KillFail", 1)
            /\ lcOp' = LcReturned("Kill", "ResourceExhausted")
            /\ UNCHANGED <<tokens, hostCalls>>
       ELSE /\ tokens' = TokensAfter(limited)
            /\ hostCalls' = Sent("KillPods")
            /\ IF failed
               THEN /\ metrics' = Inc("KillFail", 1)
                    /\ lcOp' = LcReturned("Kill", "RequestError")
               ELSE /\ metrics' = Inc("Kill", 1)
                    /\ lcOp' = LcReturned("Kill", "nil")
    /\ UNCHANGED <<lockKill, podsSent>>
    /\ UNCHANGED <<batchVars, recoveryVars, allocVars, treeVars, connectorVars, placementVars, goalstateVars, scalarVars>>

NextKillRace ==
    \/ KillChecksLock
    \/ \E limited \in BOOLEAN : \E failed \in BOOLEAN : KillGoesOn(limited, failed)
    \/ LockKill
    \/ UnlockKill
    \/ Refill

NextLifecycle ==
    \/ \E numPods \in 0 .. MaxPods : \E limited \in BOOLEAN : \E failed \in BOOLEAN :
          Launch(numPods, limited, failed)
    \/ \E limited \in BOOLEAN : \E failed \in BOOLEAN : Kill(limited, failed)
    \/ ShutdownExecutor
    \/ LockKill
    \/ UnlockKill
    \/ Refill

(***************************************************************************)
(* jobmgr/goalstate: the task actions                                      *)
(*                                                                         *)
(* One task of one job.  TaskStart is known through the calls its tests    *)
(* expect of it: every test fixes the answers of the job factory, the      *)
(* stores, the launcher and the resource manager, and with them the calls  *)
(* TaskStart makes and the error it returns.                               *)
(***************************************************************************)
\* the most task actions run
MaxTaskActions == 2

JobTypes == {"BATCH", "SERVICE"}

RespoolIDs == {"my-respool-id", "other-respool-id"}

\* a task runtime: its state and message
Runtime(state, message) == [state |-> state, message |-> message]

StoredRuntimes == {Runtime("INITIALIZED", ""), Runtime("PREEMPTING", "")}

\* the cached task: not in the cache, added with a nil runtime, or holding one
NoRuntime == Runtime("", "")

AbsentTask == [entry |-> "absent", runtime |-> NoRuntime]

NilTask == [entry |-> "nil", runtime |-> NoRuntime]

CachedTask(runtime) == [entry |-> "runtime", runtime |-> runtime]

\* jobmgrcommon.RuntimeDiff: the fields to overwrite
NoDiff == [f \in {} |-> ""]

\* the diff to PENDING without its message
PendingDiffUnexplained == [f \in {"state"} |-> "PENDING"]

PendingDiff == [f \in {"state", "message"} |->
                   IF f = "state" THEN "PENDING" ELSE "Task sent for placement"]

InitializedDiff == [f \in {"state"} |-> "INITIALIZED"]

LaunchedDiff == [f \in {"state"} |-> "LAUNCHED"]

ApplyDiff(diff, runtime) ==
    [f \in DOMAIN runtime |-> IF f \in DOMAIN diff THEN diff[f] ELSE runtime[f]]

\* the task and job caches and the task store as NewMetrics and SetupTest
\* leave them around the given cache entry and stored runtime
InitGoalstate(job, task, stored) ==
    /\ jobCached = job
    /\ taskCached = task
    /\ taskStore = stored
    /\ cacheWrites = {}
    /\ rmGangs = {}
    /\ engineQueue = {}
    /\ launched = FALSE
    /\ taMetrics = [TaskInvalidState |-> 0, errorsLogged |-> 0]
    /\ taOp = [op |-> "none", calls |-> <<>>, err |-> "nil", n |-> 0]
    /\ jobGoal = [type |-> "none", goalState |-> "none"]

\* the cache entries an action can meet
CacheEntries ==
    {<<FALSE, AbsentTask>>} \cup
    {<<TRUE, task>> : task \in {AbsentTask, NilTask} \cup {CachedTask(r) : r \in StoredRuntimes}}

TaReturned(op, made, err) == [op |-> op, calls |-> made, err |-> err, n |-> taOp.n + 1]

\* cachedJob.PatchTasks: the diff is applied to the task's runtime and written
\* through to the store, or the patch fails and leaves both alone
Patched(diff) ==
    LET runtime == IF taskCached.entry = "runtime" THEN taskCached.runtime ELSE taskStore
    IN  ApplyDiff(diff, runtime)

PatchTasks(action, diff, patchErr) ==
    IF patchErr
    THEN UNCHANGED <<taskCached, taskStore, cacheWrites>>
    ELSE /\ taskCached' = CachedTask(Patched(diff))
         /\ taskStore' = Patched(diff)
         /\ cacheWrites' = cacheWrites \cup {<<action, "PatchTasks">>}

(***************************************************************************)
(* TaskStart.  The answers it gets:                                        *)
(*   configErr    cachedJob.GetConfig fails                                *)
(*   maxRunning   GetSLA().MaximumRunningInstances                         *)
(*   jobType      GetType()                                                *)
(*   respool      GetRespoolID()                                           *)
(*   taskInfoErr  taskStore.GetTaskByID fails                              *)
(*   volume       "none": the runtime names no volume; "CREATED" and       *)
(*                "NotFound": what GetPersistentVolume answers             *)
(*   launchable   GetLaunchableTasks: "error", "none" or "task"            *)
(*   diff         the launchable task's RuntimeDiff                        *)
(*   patchErr     PatchTasks fails                                         *)
(*   enqueueErr   EnqueueGangs fails                                       *)
(***************************************************************************)
StartEnv(configErr, maxRunning, jobType, respool, taskInfoErr, volume, launchable, diff, patchErr, enqueueErr) ==
    [configErr |-> configErr, maxRunning |-> maxRunning, jobType |-> jobType,
     respool |-> respool, taskInfoErr |-> taskInfoErr, volume |-> volume,
     launchable |-> launchable, diff |-> diff, patchErr |-> patchErr,
     enqueueErr |-> enqueueErr]

\* TaskStart that never hands over to the job
DefersToJobNever(maxRunning, jobType) == FALSE

\* TaskStart hands a task of a batch job with a limit of running instances
\* over to the job
DefersToJob(maxRunning, jobType) == maxRunning > 0 /\ jobType = "BATCH"

DefersToJobOf(env) == DefersToJob(env.maxRunning, env.jobType)

\* TaskStart going on after a config that failed to load
StopsNever(configErr) == FALSE

\* TaskStart stops when the job config does not load
StopsOnConfigError(configErr) == configErr

\* the task store is asked for the task
ReadsTaskInfo(env) == ~env.configErr /\ ~DefersToJobOf(env)

\* the task has a created volume and is launched where the volume is
IsStateful(env) == ReadsTaskInfo(env) /\ ~env.taskInfoErr /\ env.volume = "CREATED"

\* the task goes to the resource manager
IsEnqueued(env) == ReadsTaskInfo(env) /\ ~env.taskInfoErr /\ env.volume # "CREATED"

\* the answers TaskStart asks for, the others at their first value: the job
\* type is asked for only under a limit of running instances
Slas == {<<0, "BATCH">>, <<1, "BATCH">>, <<1, "SERVICE">>}

StartEnvs ==
    {StartEnv(TRUE, 0, "BATCH", "my-respool-id", FALSE, "none", "error", NoDiff, FALSE, FALSE)}
    \cup
    {StartEnv(FALSE, sla[1], sla[2], "my-respool-id", FALSE, "none",
              "error", NoDiff, FALSE, FALSE) :
         sla \in {sl \in Slas : DefersToJob(sl[1], sl[2])}}
    \cup
    {StartEnv(FALSE, sla[1], sla[2], "my-respool-id", TRUE, "none",
              "error", NoDiff, FALSE, FALSE) :
         sla \in {sl \in Slas : ~DefersToJob(sl[1], sl[2])}}
    \cup
    {StartEnv(FALSE, sla[1], sla[2], "my-respool-id", FALSE, "CREATED",
              answer[1], answer[2], answer[3], FALSE) :
         sla \in {sl \in Slas : ~DefersToJob(sl[1], sl[2])},
         answer \in {<<"error", NoDiff, FALSE>>, <<"none", NoDiff, FALSE>>}
                    \cup ({"task"} \X {NoDiff, LaunchedDiff} \X BOOLEAN)}
    \cup
    {StartEnv(FALSE, sla[1], sla[2], respool, FALSE, volume,
              "error", NoDiff, answer[1], answer[2]) :
         sla \in {sl \in Slas : ~DefersToJob(sl[1], sl[2])},
         respool \in RespoolIDs,
         volume \in {"none", "NotFound"},
         answer \in {<<FALSE, FALSE>>, <<TRUE, FALSE>>, <<FALSE, TRUE>>}}

\* TaskStart patches the task to PENDING once EnqueueGangs returned no error;
\* a failed EnqueueGangs ends it with the error
PatchesPending(enqueueErr) == ~enqueueErr

\* TaskStart launching whatever PatchTasks answered
LaunchesAlways(patchErr) == TRUE

\* TaskStart sends the stateful launch once PatchTasks returned no error
Launches(patchErr) == ~patchErr

\* the calls TaskStart makes, in order, and the error it returns
TaskStartCalls(env) ==
    IF ~jobCached THEN [calls |-> <<"GetJob">>, err |-> "nil"]
    ELSE IF StopsOnConfigError(env.configErr)
    THEN [calls |-> <<"GetJob", "GetConfig">>, err |-> "error"]
    ELSE IF DefersToJobOf(env)
    THEN [calls |-> <<"GetJob", "GetConfig", "GetSLA", "GetType", "jobEngine.Enqueue">>,
          err |-> "nil"]
    ELSE LET loaded == <<"GetJob", "GetConfig", "GetSLA", "GetTaskByID">> IN
    IF env.taskInfoErr THEN [calls |-> loaded, err |-> "error"]
    ELSE IF env.volume = "CREATED"
    THEN LET asked == loaded \o <<"GetPersistentVolume", "GetLaunchableTasks">> IN
         IF env.launchable = "error" THEN [calls |-> asked, err |-> "error"]
         ELSE IF taskCached = AbsentTask \/ env.launchable = "none"
         THEN [calls |-> asked \o <<"GetJob", "GetTask">>, err |-> "nil"]
         ELSE LET patched == asked \o <<"GetJob", "GetTask", "PatchTasks">> IN
              IF Launches(env.patchErr)
              THEN [calls |-> patched \o <<"GetRunTime", "CreateLaunchableTasks",
                                          "LaunchStatefulTasks">>,
                    err |-> IF env.patchErr THEN "error" ELSE "nil"]
              ELSE [calls |-> patched, err |-> "error"]
    ELSE LET sent == loaded
                     \o (IF env.volume = "none" THEN <<>> ELSE <<"GetPersistentVolume">>)
                     \o <<"GetRespoolID", "EnqueueGangs">> IN
         IF PatchesPending(env.enqueueErr)
         THEN [calls |-> sent \o <<"PatchTasks">>,
               err |-> IF env.patchErr THEN "error" ELSE "nil"]
         ELSE [calls |-> sent, err |-> "error"]

Calls(run, name) == \E k \in DOMAIN run.calls : run.calls[k] = name

TaskStart(env) ==
    /\ taOp.n < MaxTaskActions
    /\ LET run == TaskStartCalls(env) IN
       /\ taOp' = TaReturned("TaskStart", run.calls, run.err)
       /\ engineQueue' = IF Calls(run, "jobEngine.Enqueue")
                         THEN engineQueue \cup {"job"} ELSE engineQueue
       /\ rmGangs' = IF Calls(run, "EnqueueGangs") /\ ~env.enqueueErr
                     THEN rmGangs \cup {<<"task", env.respool>>} ELSE rmGangs
       /\ launched' = (launched \/ Calls(run, "LaunchStatefulTasks"))
       /\ IF Calls(run, "PatchTasks")
          THEN PatchTasks("TaskStart",
                          IF Calls(run, "EnqueueGangs") THEN PendingDiff ELSE env.diff,
                          env.patchErr)
          ELSE UNCHANGED <<taskCached, taskStore, cacheWrites>>
    /\ UNCHANGED <<jobCached, taMetrics, jobGoal>>
    /\ UNCHANGED <<batchVars, recoveryVars, allocVars, treeVars, connectorVars, placementVars, lifecycleVars, scalarVars>>

\* TaskReloadRuntime; storeErr: taskStore.GetTaskRuntime fails
TaskReloadRuntime(storeErr) ==
    /\ taOp.n < MaxTaskActions
    /\ IF ~jobCached
       THEN /\ taOp' = TaReturned("TaskReloadRuntime", <<"GetJob">>, "nil")
            /\ UNCHANGED <<taskCached, cacheWrites, engineQueue>>
       ELSE IF storeErr
       THEN /\ taskCached' = IF taskCached = AbsentTask THEN NilTask ELSE taskCached
            /\ taOp' = TaReturned("TaskReloadRuntime",
                                  <<"GetJob", "AddTask", "GetTaskRuntime">>, "error")
            /\ UNCHANGED <<cacheWrites, engineQueue>>
       ELSE /\ taskCached' = CachedTask(taskStore)
            /\ cacheWrites' = cacheWrites \cup {<<"TaskReloadRuntime", "ReplaceRuntime">>}
            /\ engineQueue' = engineQueue \cup {"task"}
            /\ taOp' = TaReturned("TaskReloadRuntime",
                                  <<"GetJob", "AddTask", "GetTaskRuntime",
                                    "ReplaceRuntime", "EnqueueTask">>, "nil")
    /\ UNCHANGED <<jobCached, taskStore, rmGangs, launched, taMetrics, jobGoal>>
    /\ UNCHANGED <<batchVars, recoveryVars, allocVars, treeVars, connectorVars, placementVars, lifecycleVars, scalarVars>>

\* TaskInitialize, the action chosen after a preemption: the task goes back
\* to INITIALIZED through PatchTasks
TaskInitialize(patchErr) ==
    IF ~jobCached
    THEN UNCHANGED <<taskCached, taskStore, cacheWrites>>
    ELSE PatchTasks("TaskInitialize", InitializedDiff, patchErr)

\* TaskPreempt; configErr: taskStore.GetTaskConfig fails; policy: the
\* preemption policy of the task config
TaskPreempt(configErr, policy, patchErr) ==
    /\ taOp.n < MaxTaskActions
    /\ IF configErr
       THEN /\ taMetrics' = [taMetrics EXCEPT !.errorsLogged = @ + 2]
            /\ taOp' = TaReturned("TaskPreempt", <<"GetTaskConfig">>, "error")
            /\ UNCHANGED <<taskCached, taskStore, cacheWrites>>
       ELSE IF policy = "KillOnPreempt"
       THEN /\ taOp' = TaReturned("TaskPreempt", <<"GetTaskConfig">>, "nil")
            /\ UNCHANGED <<taskCached, taskStore, cacheWrites, taMetrics>>
       ELSE /\ TaskInitialize(patchErr)
            /\ taOp' = TaReturned("TaskPreempt", <<"GetTaskConfig", "TaskInitialize">>, "nil")
            /\ UNCHANGED taMetrics
    /\ UNCHANGED <<jobCached, rmGangs, engineQueue, launched, jobGoal>>
    /\ UNCHANGED <<batchVars, recoveryVars, allocVars, treeVars, connectorVars, placementVars, lifecycleVars, scalarVars>>

\* TaskStateInvalid returning an error to the engine
TaskStateInvalidFailing ==
    /\ taOp.n < MaxTaskActions
    /\ IF ~jobCached
       THEN /\ taOp' = TaReturned("TaskStateInvalid", <<"GetJob">>, "nil")
            /\ UNCHANGED taMetrics
       ELSE IF taskCached = AbsentTask
       THEN /\ taOp' = TaReturned("TaskStateInvalid", <<"GetJob", "GetTask">>, "nil")
            /\ UNCHANGED taMetrics
       ELSE /\ taMetrics' = [TaskInvalidState |-> taMetrics.TaskInvalidState + 1,
                             errorsLogged |-> taMetrics.errorsLogged + 1]
            /\ taOp' = TaReturned("TaskStateInvalid", <<"GetJob", "GetTask">>, "error")
    /\ UNCHANGED <<jobCached, taskCached, taskStore, cacheWrites, rmGangs,
                   engineQueue, launched, jobGoal>>
    /\ UNCHANGED <<batchVars, recoveryVars, allocVars, treeVars, connectorVars, placementVars, lifecycleVars, scalarVars>>

TaskStateInvalid ==
    /\ taOp.n < MaxTaskActions
    /\ IF ~jobCached
       THEN /\ taOp' = TaReturned("TaskStateInvalid", <<"GetJob">>, "nil")
            /\ UNCHANGED taMetrics
       ELSE IF taskCached = AbsentTask
       THEN /\ taOp' = TaReturned("TaskStateInvalid", <<"GetJob", "GetTask">>, "nil")
            /\ UNCHANGED taMetrics
       ELSE /\ taMetrics' = [TaskInvalidState |-> taMetrics.TaskInvalidState + 1,
                             errorsLogged |-> taMetrics.errorsLogged + 1]
            /\ taOp' = TaReturned("TaskStateInvalid", <<"GetJob", "GetTask">>, "nil")
    /\ UNCHANGED <<jobCached, taskCached, taskStore, cacheWrites, rmGangs,
                   engineQueue, launched, jobGoal>>
    /\ UNCHANGED <<batchVars, recoveryVars, allocVars, treeVars, connectorVars, placementVars, lifecycleVars, scalarVars>>

\* GetDefaultJobGoalState with the two goal states exchanged
GetDefaultJobGoalStateExchanged(jobType) ==
    IF jobType = "SERVICE" THEN "SUCCEEDED" ELSE "RUNNING"

GetDefaultJobGoalState(jobType) ==
    IF jobType = "SERVICE" THEN "RUNNING" ELSE "SUCCEEDED"

\* a job of the given type gets its default goal state
DefaultJobGoalState(jobType) ==
    /\ jobGoal' = [type |-> jobType, goalState |-> GetDefaultJobGoalState(jobType)]
    /\ UNCHANGED <<jobCached, taskCached, taskStore, cacheWrites, rmGangs,
                   engineQueue, launched, taMetrics, taOp>>
    /\ UNCHANGED <<batchVars, recoveryVars, allocVars, treeVars, connectorVars, placementVars, lifecycleVars, scalarVars>>

NextGoalstate ==
    \/ \E env \in StartEnvs : TaskStart(env)
    \/ \E storeErr \in BOOLEAN : TaskReloadRuntime(storeErr)
    \/ \E configErr \in BOOLEAN : \E policy \in {"none", "KillOnPreempt", "Reschedule"} :
          \E patchErr \in BOOLEAN : TaskPreempt(configErr, policy, patchErr)
    \/ TaskStateInvalid
    \/ \E jobType \in JobTypes : DefaultJobGoalState(jobType)

(***************************************************************************)
(* scalar/resources.go: Subtract, LessThanOrEqual and Equal as functions   *)
(* of two Resources                                                        *)
(***************************************************************************)
\* the largest amount of an operand, in halves of the epsilon
MaxAmount == 3

Amounts == 0 .. MaxAmount

ScalarResources ==
    {[CPU |-> c, MEMORY |-> m, DISK |-> d, GPU |-> g] :
        c \in Amounts, m \in Amounts, d \in Amounts, g \in Amounts}

Abs(v) == IF v < 0 THEN 0 - v ELSE v

\* lessThanOrEqual
lessThanOrEqual(f1, f2) ==
    LET v == f1 - f2
    IN  IF Abs(v) < ResourceEpsilon THEN TRUE ELSE v < 0

\* Resources.LessThanOrEqual
ResourcesLessThanOrEqual(r, other) ==
    /\ lessThanOrEqual(r.CPU, other.CPU)
    /\ lessThanOrEqual(r.MEMORY, other.MEMORY)
    /\ lessThanOrEqual(r.DISK, other.DISK)
    /\ lessThanOrEqual(r.GPU, other.GPU)

\* equal
equal(f1, f2) == f1 = f2

\* Resources.Equal
ResourcesEqual(r, other) ==
    /\ equal(r.CPU, other.CPU)
    /\ equal(r.MEMORY, other.MEMORY)
    /\ equal(r.DISK, other.DISK)
    /\ equal(r.GPU, other.GPU)

NotCompared == [le |-> FALSE, ge |-> FALSE, eq |-> FALSE]

InitScalar(r, other) ==
    /\ scalarR = r
    /\ scalarOther = other
    /\ scalarOp = "none"
    /\ subtracted = ZeroResource
    /\ compared = NotCompared

\* result := r.Subtract(other)
CallSubtract ==
    /\ scalarOp = "none"
    /\ scalarOp' = "Subtract"
    /\ subtracted' = ResourcesSubtract(scalarR, scalarOther)
    /\ UNCHANGED <<scalarR, scalarOther, compared>>
    /\ UNCHANGED <<batchVars, recoveryVars, allocVars, treeVars, connectorVars, placementVars, lifecycleVars, goalstateVars>>

\* r.LessThanOrEqual(other), other.LessThanOrEqual(r) and r.Equal(other)
CallCompare ==
    /\ scalarOp = "none"
    /\ scalarOp' = "Compare"
    /\ compared' = [le |-> ResourcesLessThanOrEqual(scalarR, scalarOther),
                    ge |-> ResourcesLessThanOrEqual(scalarOther, scalarR),
                    eq |-> ResourcesEqual(scalarR, scalarOther)]
    /\ UNCHANGED <<scalarR, scalarOther, subtracted>>
    /\ UNCHANGED <<batchVars, recoveryVars, allocVars, treeVars, connectorVars, placementVars, lifecycleVars, goalstateVars>>

NextScalar ==
    \/ CallSubtract
    \/ CallCompare

Init ==
    /\ InitBatches
    /\ InitRecovery
    /\ InitAlloc
    /\ InitTree
    /\ InitConnector
    /\ InitPlacement(<<>>)
    /\ InitLifecycle
    /\ InitGoalstate(TRUE, AbsentTask, Runtime("INITIALIZED", ""))
    /\ InitScalar(ZeroResource, ZeroResource)

\* the placement engine starts against a resource manager with gangs waiting
InitQueued ==
    /\ InitBatches
    /\ InitRecovery
    /\ InitAlloc
    /\ InitTree
    /\ InitConnector
    /\ \E queue \in GangQueues : InitPlacement(queue)
    /\ InitLifecycle
    /\ InitGoalstate(TRUE, AbsentTask, Runtime("INITIALIZED", ""))
    /\ InitScalar(ZeroResource, ZeroResource)

\* the task actions start on any cache entry and stored runtime
InitCached ==
    /\ InitBatches
    /\ InitRecovery
    /\ InitAlloc
    /\ InitTree
    /\ InitConnector
    /\ InitPlacement(<<>>)
    /\ InitLifecycle
    /\ \E entry \in CacheEntries : \E stored \in StoredRuntimes :
          /\ entry[2].entry = "runtime" => entry[2].runtime = stored
          /\ InitGoalstate(entry[1], entry[2], stored)
    /\ InitScalar(ZeroResource, ZeroResource)

\* the methods of Resources are called on any two operands
InitOperands ==
    /\ InitBatches
    /\ InitRecovery
    /\ InitAlloc
    /\ InitTree
    /\ InitConnector
    /\ InitPlacement(<<>>)
    /\ InitLifecycle
    /\ InitGoalstate(TRUE, AbsentTask, Runtime("INITIALIZED", ""))
    /\ \E r \in ScalarResources : \E other \in ScalarResources : InitScalar(r, other)

SpecBatches == Init /\ [][NextBatches]_vars

SpecRecovery == Init /\ [][NextRecovery]_vars

\* every goroutine that can take a step is scheduled in the end
SpecRecoveryFair == Init /\ [][NextRecovery]_vars /\ WF_vars(NextRecovery)

SpecAlloc == Init /\ [][NextAlloc]_vars

SpecTree == Init /\ [][NextTree]_vars

SpecConnector == Init /\ [][NextConnector]_vars

SpecPlacement == InitQueued /\ [][NextPlacement]_vars

SpecLifecycle == Init /\ [][NextLifecycle]_vars

SpecGoalstate == InitCached /\ [][NextGoalstate]_vars

SpecKillRace == Init /\ [][NextKillRace]_vars

SpecScalar == InitOperands /\ [][NextScalar]_vars

(***************************************************************************)
(* Claims about createTaskBatches                                          *)
(***************************************************************************)
\* the batches (by position) that hold instance index idx
BatchesHolding(batches, idx) ==
    {k \in 1 .. Len(batches) :
        Le32(batches[k].From, U32(idx)) /\ Lt32(U32(idx), batches[k].To)}

CoversEachInstanceOnce(config, batches) ==
    \A idx \in 0 .. Val(config.InstanceCount) - 1 :
        Cardinality(BatchesHolding(batches, idx)) = 1

\* C1: for every job config the batches of createTaskBatches hold each
\* instance index in [0, instance_count) exactly once, the first batch being
\* [0, min_running_instances) when min_running_instances > 1.
C1_BatchesCoverEveryInstanceOnce ==
    batchCalled =>
        /\ CoversEachInstanceOnce(batchConfig, taskBatches)
        /\ Lt32(U32(1), batchConfig.MinimumRunningInstances) =>
               /\ Len(taskBatches) >= 1
               /\ taskBatches[1] = TasksBatch(U32(0), batchConfig.MinimumRunningInstances)

\* C33: every batch createTaskBatches returns is well-formed, for every job
\* config: From < To <= instance_count, and every batch other than the
\* initial gang batch spans at most requeueTaskBatchSize instances.
C33_BatchesWellFormed ==
    batchCalled =>
        \A k \in 1 .. Len(taskBatches) :
            /\ Lt32(taskBatches[k].From, taskBatches[k].To)
            /\ Le32(taskBatches[k].To, batchConfig.InstanceCount)
            /\ ~(k = 1 /\ Lt32(U32(1), batchConfig.MinimumRunningInstances)) =>
                   Val(taskBatches[k].To) - Val(taskBatches[k].From)
                       <= requeueTaskBatchSize

(***************************************************************************)
(* Claims about recovery                                                   *)
(***************************************************************************)
Jobs == 1 .. Len(jobIDs)

\* the task batches of job j, by position
TaskBatchesOf(j) == 1 .. Len(createTaskBatches(jobIDs[j].config))

\* the jobs that come after job j in j's job batch
LaterInBatch(j) ==
    {k \in Jobs : \E b \in DOMAIN jobBatches :
        \E x, y \in DOMAIN jobBatches[b] :
            x < y /\ jobBatches[b][x] = j /\ jobBatches[b][y] = k}

\* a job whose runtime loads and that is active: not both its state and its
\* goal state terminal with an empty update id
IsActiveJob(job) ==
    /\ job.runtime.err = "nil"
    /\ ~(job.runtime.stateTerminal /\ job.runtime.goalStateTerminal
         /\ job.runtime.updateID = "")

\* C2: an error that f reported on recoverJob's error channel is never lost:
\* the job is not logged as recovered and RecoverJobsByState returns an error.
C2_ReportedErrorIsReturned ==
    /\ reported \cap loggedRecovered = {}
    /\ (mpc = "returned" /\ reported # {}) => mresult = "err"

\* C3: a GetJobRuntime failure other than NotFound aborts recovery:
\* RecoverJobsByState returns an error and no later job of that job batch is
\* processed.
C3_RuntimeErrorAbortsRecovery ==
    \A j \in started :
        jobIDs[j].runtime.err = "Error" =>
            /\ LaterInBatch(j) \cap started = {}
            /\ mpc = "returned" => mresult = "err"

\* C4: when GetJobRuntime returns NotFound for a job of the index and nothing
\* else fails (every config loads, f reports no error), the job is skipped,
\* f has been invoked for every task batch of every active job when
\* RecoverJobsByState returns, and it returns nil.
C4_NotFoundJobIsSkipped ==
    (/\ mpc = "returned"
     /\ \E j \in Jobs : jobIDs[j].runtime.err = "NotFound"
     /\ \A j \in Jobs : IsActiveJob(jobIDs[j]) => ~jobIDs[j].configError
     /\ reported = {})
    => /\ mresult = "nil"
       /\ \A j \in Jobs :
            /\ IsActiveJob(jobIDs[j]) =>
                  \A t \in TaskBatchesOf(j) : <<j, t>> \in invoked
            /\ jobIDs[j].runtime.err = "NotFound" =>
                  /\ j \in started
                  /\ \A p \in invoked : p[1] # j

C4_Witness ==
    /\ mpc = "returned"
    /\ mresult = "nil"
    /\ \E j, k \in Jobs :
          /\ jobIDs[j].runtime.err = "NotFound"
          /\ j \in started
          /\ j < k
          /\ IsActiveJob(jobIDs[k])
          /\ Len(createTaskBatches(jobIDs[k].config)) = 2
          /\ <<k, 1>> \in invoked
          /\ <<k, 2>> \in invoked

\* the jobs f was invoked for
RecoveredJobs == {p[1] : p \in invoked}

AllBatchesDone ==
    /\ mpc # "idle"
    /\ \A b \in Batches : batchG[b].pc = "done"

C30_NothingStartsAfterCancel ==
    [][ctxDone =>
          /\ started' = started
          /\ \A b \in Batches :
                ~(batchG[b].pc = "loop" /\ batchG'[b].pc = "select")]_vars

\* C34: the job batches are consecutive pieces of the list of job ids whose
\* concatenation is the list in the same order, and every batch holds at
\* least 1 and at most requeueJobBatchSize jobs, for every length of the
\* list.
C34_JobBatchesSplitTheList ==
    mpc = "select" =>
        /\ Flatten(jobBatches) = [i \in 1 .. Len(jobIDs) |-> i]
        /\ \A b \in DOMAIN jobBatches :
              /\ Len(jobBatches[b]) >= 1
              /\ Len(jobBatches[b]) <= requeueJobBatchSize

\* every goroutine RecoverJobsByState and recoverJob started has returned
AllGoroutinesDone ==
    \A b \in Batches :
        /\ batchG[b].pc = "done"
        /\ \A t \in DOMAIN batchG[b].tasks : batchG[b].tasks[t] = "done"

\* C39: no recovery goroutine blocks forever on an error channel: every
\* task-batch goroutine and every job-batch goroutine terminates in the end,
\* whatever number of batches fail.
C39_EveryGoroutineTerminates == (mpc # "idle") ~> AllGoroutinesDone

(***************************************************************************)
(* Claims about allocations                                                *)
(***************************************************************************)
AllocationInvariant(a) ==
    \A d \in Dimensions :
        /\ a["TotalAllocation"][d] =
              a["PreemptibleAllocation"][d] + a["NonPreemptibleAllocation"][d]
        /\ a["ControllerAllocation"][d] <= a["TotalAllocation"][d]

\* C5 as stated: after any sequence of Add and Subtract of allocations that
\* GetTaskAllocation / GetGangAllocation produce, in every dimension
\* Total = Preemptible + NonPreemptible and Controller <= Total.
C5_AllocationInvariantAlways == AllocationInvariant(alloc)

\* C5 as amended: the same, for amounts that are whole numbers of epsilons
\* and sequences in which every Subtract takes away an allocation that was
\* added before and has not been subtracted since.
C5_AllocationInvariantWhenExact == allocExact => AllocationInvariant(alloc)

C5_Witness ==
    /\ allocExact
    /\ allocOps = <<"Add", "Add", "Subtract">>
    /\ \A d \in {"CPU", "MEMORY", "DISK"} :
          /\ alloc["ControllerAllocation"][d] > 0
          /\ alloc["PreemptibleAllocation"][d] > 0
          /\ alloc["NonPreemptibleAllocation"][d] > 0

\* C31: Resources.Subtract saturates at zero in each dimension on its own:
\* a dimension of the result is 0 when the subtrahend exceeds the minuend or
\* the difference is below the resource epsilon, and the exact difference
\* otherwise; no dimension of the result is negative.
C31_SubtractSaturatesPerDimension ==
    scalarOp = "Subtract" =>
        \A d \in Dimensions :
            LET minuend    == scalarR[d]
                subtrahend == scalarOther[d]
                result     == subtracted[d]
            IN  /\ result >= 0
                /\ IF subtrahend > minuend
                      \/ minuend - subtrahend < ResourceEpsilon
                   THEN result = 0
                   ELSE result = minuend - subtrahend

\* CPU differs by less than the epsilon, MEMORY and DISK are exact
\* differences, GPU is saturated
C31_Witness ==
    /\ scalarOp = "Subtract"
    /\ scalarR = [CPU |-> 3, MEMORY |-> 2, DISK |-> 3, GPU |-> 0]
    /\ scalarOther = [CPU |-> 2, MEMORY |-> 0, DISK |-> 1, GPU |-> 1]
    /\ subtracted = [CPU |-> 0, MEMORY |-> 2, DISK |-> 2, GPU |-> 0]

\* C32: Equal uses the epsilon tolerance as LessThanOrEqual does: for all a
\* and b, a.Equal(b) holds exactly when a.LessThanOrEqual(b) and
\* b.LessThanOrEqual(a).
C32_EqualIffBothLessThanOrEqual ==
    scalarOp = "Compare" => (compared.eq <=> (compared.le /\ compared.ge))

(***************************************************************************)
(* The resource pool tree                                                  *)
(***************************************************************************)
TreeIDs == PoolIDs \cup {RootResPoolID}

\* the references in a node's children list
ChildRefs(h, node) == {h[node].children[k] : k \in DOMAIN h[node].children}

\* the nodes within n children links below a node
RECURSIVE BelowWithin(_, _, _)
BelowWithin(n, h, node) ==
    IF n = 0
    THEN ChildRefs(h, node)
    ELSE LET prev == BelowWithin(n - 1, h, node)
         IN  prev \cup UNION {ChildRefs(h, r) : r \in prev}

\* the ids of a node and of its descendants
SelfAndDescendantIDs(h, node) ==
    {h[node].ID} \cup {h[r].ID : r \in BelowWithin(Cardinality(DOMAIN h), h, node)}

\* the names from the root to the pool with the given id, each pool below the
\* parent its config names; "?" where the configs lead to no pool or in a circle
RECURSIVE NamesFromRoot(_, _, _, _)
NamesFromRoot(n, h, index, ID) ==
    IF ID = RootResPoolID
    THEN <<>>
    ELSE IF n = 0 \/ ID \notin DOMAIN index
    THEN <<"?">>
    ELSE NamesFromRoot(n - 1, h, index, h[index[ID]].config.Parent)
         \o <<Name(h[index[ID]])>>

\* the path "/n1/n2/.../nk" of the names, "/" for none
RECURSIVE PathOf(_)
PathOf(names) ==
    IF names = <<>>
    THEN <<ResourcePoolPathDelimiter>>
    ELSE IF Len(names) = 1
    THEN <<ResourcePoolPathDelimiter, names[1]>>
    ELSE <<ResourcePoolPathDelimiter, names[1]>> \o PathOf(Tail(names))

\* C6: an Upsert whose config names a parent that is not in the tree returns
\* an error and changes nothing: no node is added or updated, no children list
\* changes and nothing is written to the updated channel.
C6_UpsertWithMissingParentChangesNothing ==
    [][\A ID \in TreeIDs : \A resPoolConfig \in ResourcePoolConfigs :
          (resPoolConfig.Parent \notin DOMAIN resPools /\ UpsertCall(ID, resPoolConfig))
          => /\ lastOp'.op = "Upsert"
             /\ lastOp'.err
             /\ UNCHANGED <<root, resPools, heap, updatedChan>>]_vars

\* an Upsert has just failed on a started tree that holds pools, the updated
\* channel being empty
C6_Witness ==
    /\ lastOp.op = "Upsert"
    /\ lastOp.err
    /\ root # NilNode
    /\ Cardinality(DOMAIN resPools) >= 2
    /\ updatedChan = 0

\* C7: an Upsert on a node of the tree whose config names the node itself or
\* one of its descendants as parent returns an error and leaves the node's
\* config and the tree as they were.
C7_UpsertRejectsCycle ==
    [][\A ID \in TreeIDs : \A resPoolConfig \in ResourcePoolConfigs :
          (/\ ID \in DOMAIN resPools
           /\ resPoolConfig.Parent \in SelfAndDescendantIDs(heap, resPools[ID])
           /\ UpsertCall(ID, resPoolConfig))
          => /\ lastOp'.err
             /\ UNCHANGED <<root, resPools, heap>>]_vars

\* C8, as stated: Delete of a node that has children returns an error and
\* leaves the index and the children lists as they were.
C8_DeleteRejectsNodeWithChildren ==
    [][\A ID \in TreeIDs :
          (/\ ID \in DOMAIN resPools
           /\ heap[resPools[ID]].children # <<>>
           /\ DeleteCall(ID))
          => /\ lastOp'.err
             /\ UNCHANGED <<resPools, heap>>]_vars

\* C8, amended: Delete returns an error and changes nothing exactly when the
\* id is not in the index or the node has no parent (the root).  Otherwise,
\* children or not, it returns nil, takes the node out of its parent's
\* children list and takes the node and its direct children, and no other
\* pool, out of the index; no other children list changes.
C8_DeleteRemovesNodeAndItsChildren ==
    [][\A ID \in TreeIDs :
          (lastOp'.op = "Delete" /\ DeleteCall(ID))
          => IF ID \notin DOMAIN resPools \/ heap[resPools[ID]].parent = NilNode
             THEN /\ lastOp'.err
                  /\ UNCHANGED <<root, resPools, heap>>
             ELSE LET node == resPools[ID]
                      parent == heap[node].parent
                  IN  /\ ~lastOp'.err
                      /\ DOMAIN resPools' =
                             DOMAIN resPools \ ({ID} \cup ChildIDs(heap, node))
                      /\ \A id \in DOMAIN resPools' : resPools'[id] = resPools[id]
                      /\ root' = root
                      /\ \A r \in DOMAIN heap' :
                            /\ r \in DOMAIN heap
                            /\ heap'[r].children =
                                   IF r = parent
                                   THEN WithoutID(heap, heap[r].children, ID)
                                   ELSE heap[r].children]_vars

\* a Delete has just returned nil after taking a node and a child of it out
\* of the index
C8_Witness ==
    /\ lastOp.op = "Delete"
    /\ ~lastOp.err
    /\ Cardinality(lastOp.deleted) >= 2

\* the nodes whose children list holds the node
Holders(h, node) == {r \in DOMAIN h : node \in ChildRefs(h, r)}

\* the parent links from the node end at a node without parent
RECURSIVE EndsWithin(_, _, _)
EndsWithin(n, h, node) ==
    \/ h[node].parent = NilNode
    \/ n > 0 /\ EndsWithin(n - 1, h, h[node].parent)

\* C9: once started, the tree has exactly one root, of id "root" and without
\* parent; every other indexed node is in the children list of exactly one
\* node, once, and that node is the one its current config names as parent;
\* the parent links are acyclic.
C9_TreeIsWellFormed ==
    root # NilNode
    => /\ RootResPoolID \in DOMAIN resPools
       /\ resPools[RootResPoolID] = root
       /\ heap[root].ID = RootResPoolID
       /\ \A id \in DOMAIN resPools :
             heap[resPools[id]].parent = NilNode <=> id = RootResPoolID
       /\ \A id \in DOMAIN resPools \ {RootResPoolID} :
             LET node == resPools[id]
                 named == heap[node].config.Parent
             IN  /\ named \in DOMAIN resPools
                 /\ Holders(heap, node) = {resPools[named]}
                 /\ heap[node].parent = resPools[named]
                 /\ Cardinality({k \in DOMAIN heap[resPools[named]].children :
                                    heap[resPools[named]].children[k] = node}) = 1
       /\ \A id \in DOMAIN resPools :
             EndsWithin(Cardinality(DOMAIN heap), heap, resPools[id])

\* C10: after an Upsert that returned nil, GetByPath of the path of names from
\* the root to the node, under the config given, returns the node with that
\* id, holding that config.
C10_UpsertedNodeIsFoundByPath ==
    [][\A ID \in TreeIDs : \A resPoolConfig \in ResourcePoolConfigs :
          (~lastOp'.err /\ UpsertCall(ID, resPoolConfig))
          => LET names == NamesFromRoot(Cardinality(TreeIDs), heap', resPools', ID)
                 found == GetByPath(heap', root', PathOf(names))
             IN  /\ found # NilNode
                 /\ heap'[found].ID = ID
                 /\ heap'[found].config = resPoolConfig]_vars

\* the longest path looked up, in characters
MaxPathLen == 5

\* the paths looked up: all strings of delimiters and pool names
RECURSIVE PathsOfLen(_)
PathsOfLen(n) ==
    IF n = 0
    THEN {<<>>}
    ELSE {Append(p, c) : p \in PathsOfLen(n - 1),
                         c \in PoolNames \cup {ResourcePoolPathDelimiter}}

Paths == UNION {PathsOfLen(n) : n \in 0 .. MaxPathLen}

\* the paths "/n1/n2/.../nk" of one or more names
IsChainPath(path) ==
    /\ Len(path) >= 2
    /\ Len(path) % 2 = 0
    /\ \A i \in DOMAIN path :
          IF i % 2 = 1
          THEN path[i] = ResourcePoolPathDelimiter
          ELSE path[i] \in PoolNames

\* the names n1, ..., nk of such a path
ChainNames(path) == [k \in 1 .. Len(path) \div 2 |-> path[2 * k]]

\* the nodes reached from the given nodes by following children named as the
\* names, one after the other
RECURSIVE ReachedBy(_, _, _)
ReachedBy(h, from, names) ==
    IF names = <<>>
    THEN from
    ELSE ReachedBy(h,
                   {c \in UNION {ChildRefs(h, r) : r \in from} : Name(h[c]) = names[1]},
                   Tail(names))

\* C11: on a started tree GetByPath returns the root for "/", returns for a
\* path /n1/.../nk the node reached from the root by following children named
\* n1, ..., nk in turn, and fails for a path that names no such chain; on a
\* tree that is not started it fails for every path.
C11_GetByPathFollowsNames ==
    \A path \in Paths :
        LET found == GetByPath(heap, root, path)
        IN  IF root = NilNode
            THEN found = NilNode
            ELSE /\ path = <<ResourcePoolPathDelimiter>> => found = root
                 /\ IsChainPath(path)
                    => LET reached == ReachedBy(heap, {root}, ChainNames(path))
                       IN  IF reached = {}
                           THEN found = NilNode
                           ELSE found \in reached

\* C12: after every Upsert and every Delete that returned nil a signal is
\* pending on the updated channel, and a pending signal stays until a
\* consumer receives it; the channel never holds more than one signal.
C12_EveryChangeIsSignalled ==
    [][/\ \A ID \in TreeIDs : \A resPoolConfig \in ResourcePoolConfigs :
             (~lastOp'.err /\ UpsertCall(ID, resPoolConfig)) => updatedChan' = 1
       /\ \A ID \in TreeIDs :
             (~lastOp'.err /\ lastOp'.op = "Delete" /\ DeleteCall(ID))
             => updatedChan' = 1
       /\ updatedChan' < updatedChan => ReceiveUpdated
       /\ updatedChan' <= 1]_vars

\* the parent chain of the stored config ends at the root within n links
RECURSIVE ReachesRoot(_, _, _)
ReachesRoot(n, stored, id) ==
    \/ id = RootResPoolID
    \/ /\ n > 0
       /\ id \in DOMAIN stored
       /\ ReachesRoot(n - 1, stored, stored[id].Parent)

\* C13: when Start builds the tree from the stored configs, every config
\* whose parent chain ends at the root is loaded and resolved by Get, and
\* every config whose chain does not (a cycle or a missing parent) is left out
\* of the tree with an error reported by Start.
C13_StartRejectsUnrootedConfigs ==
    [][\A stored \in StoredConfigs : \A order \in RangeOrders :
          (/\ lastOp'.op = "Start"
           /\ root = NilNode
           /\ initTree(stored, order))
          => \A id \in DOMAIN stored :
                IF ReachesRoot(Cardinality(PoolIDs), stored, id)
                THEN /\ lookupResPool(resPools', id) # NilNode
                     /\ heap'[lookupResPool(resPools', id)].ID = id
                     /\ heap'[lookupResPool(resPools', id)].config = stored[id]
                ELSE /\ lookupResPool(resPools', id) = NilNode
                     /\ lastOp'.err]_vars

(***************************************************************************)
(* The connector                                                           *)
(***************************************************************************)
\* the callers whose CreateIfNotExists for the key returned nil
CreatedBy(key) ==
    {p \in Callers : /\ calls[p].op = "CreateIfNotExists"
                     /\ calls[p].key = key
                     /\ calls[p].err = "nil"}

\* a Delete for the key has reached the database
DeleteRan(key) ==
    \E p \in Callers : /\ calls[p].op = "Delete"
                       /\ calls[p].key = key
                       /\ calls[p].attempts > 0

\* as long as no row of the key is deleted, at most one CreateIfNotExists
\* for it has returned nil
AtMostOneCreates ==
    \A key \in PrimaryKeys : ~DeleteRan(key) => Cardinality(CreatedBy(key)) <= 1

\* C14: a CreateIfNotExists whose query is answered inserts the row and
\* returns nil when no row of the key is stored, and returns AlreadyExists and
\* leaves the table as it is when one is stored; of the concurrent
\* CreateIfNotExists calls for one key at most one returns nil.
C14_CreateIfNotExistsIsCAS ==
    [][/\ \A p \in Callers :
             (MapScanCASReturns(p) /\ calls'[p].err # "QueryError")
             => IF rows[calls[p].key] = NoRow
                THEN /\ calls'[p].err = "nil"
                     /\ rows' = [rows EXCEPT ![calls[p].key] = calls[p].row]
                ELSE /\ calls'[p].err = "AlreadyExists"
                     /\ rows' = rows
       /\ AtMostOneCreates']_vars

\* two CreateIfNotExists calls for one key were in flight together; both
\* have returned, one with nil and one with AlreadyExists, the row of the
\* first being stored
C14_Witness ==
    \E p, q \in Callers :
        /\ p # q
        /\ calls[p].op = "CreateIfNotExists" /\ calls[q].op = "CreateIfNotExists"
        /\ calls[p].key = calls[q].key
        /\ calls[p].err = "nil"
        /\ calls[q].err = "AlreadyExists"
        /\ rows[calls[p].key] = calls[p].row

\* C15: a Create, CreateIfNotExists, Update or Delete that returns an error
\* increments ExecuteFail and leaves ExecuteSuccess as it is, whatever the
\* path on which it fails.
C15_EveryFailureCountsAsExecuteFail ==
    [][\A p \in Callers :
          (/\ calls[p].pc # "returned"
           /\ calls'[p].pc = "returned"
           /\ calls'[p].err # "nil")
          => /\ ExecuteFail' = ExecuteFail + 1
             /\ ExecuteSuccess' = ExecuteSuccess]_vars

\* C16: a call that returns the error of its query has run the query
\* defaultRetryAttempts times.
C16_FailedQueryWasRetried ==
    \A p \in Callers :
        (calls[p].pc = "returned" /\ calls[p].err = "QueryError")
        => calls[p].attempts = defaultRetryAttempts

(***************************************************************************)
(* placement/tasks                                                         *)
(***************************************************************************)
AssignedTasks == {assignments[k].task.id : k \in DOMAIN assignments}

\* C17: when SetPlacements does not succeed (the request fails or the response
\* carries an error), every task whose placement was not accepted is enqueued
\* back with the reason "set_placement_failed", so it is placed or returned.
C17_FailedSetPlacementsReturnsTasks ==
    [][\A tasks \in SUBSET AssignedTasks :
          \A outcome \in {"rpc error", "response error"} :
              \A accepted \in SUBSET tasks :
                  (/\ tasks # {}
                   /\ returned' = returned
                   /\ SetPlacements(tasks, outcome, accepted))
                  => \A t \in tasks :
                         \/ t \in placed'
                         \/ <<t, "set_placement_failed">> \in returned']_vars

\* C18: a failed DequeueGangs request gives an empty batch; a successful one
\* gives exactly one assignment for each task of the returned gangs, in the
\* order of the gangs and of their tasks, and the assignments of the tasks of
\* one gang all carry the same deadline.
C18_DequeueAssignsEveryTaskOfEveryGang ==
    [][\A batchSize \in 1 .. MaxGangs : \A failed \in BOOLEAN :
          \A numGangs \in 0 .. MaxGangs : \A now \in 0 .. MaxNow :
              (/\ assignments = <<>>
               /\ Len(rmQueue') = (IF failed THEN Len(rmQueue) ELSE Len(rmQueue) - numGangs)
               /\ Dequeue(batchSize, failed, numGangs, now))
              => IF failed
                 THEN assignments' = <<>>
                 ELSE /\ [k \in DOMAIN assignments' |-> assignments'[k].task]
                             = Flatten(SubSeq(rmQueue, 1, numGangs))
                      /\ \A i, j \in DOMAIN assignments' :
                             assignments'[i].task.id[1] = assignments'[j].task.id[1]
                             => assignments'[i].deadline = assignments'[j].deadline]_vars

\* two tasks of one gang with different types were dequeued after another gang
C18_Witness ==
    \E i, j \in DOMAIN assignments :
        /\ i < j
        /\ assignments[i].task.id[1] = assignments[j].task.id[1]
        /\ assignments[i].task.type # assignments[j].task.type
        /\ assignments[1].task.id[1] # assignments[i].task.id[1]

\* the tasks of the gang the k-th assignment was dequeued with
GangTasks(k) == {assignments[k].gang[x].id : x \in DOMAIN assignments[k].gang}

\* C37: tasks that Dequeue received as the members of one gang are handed
\* back by Enqueue as that same gang: when Enqueue returns whole gangs, every
\* gang of its request is the task set of a dequeued gang.
C37_GangsAreReturnedWhole ==
    [][LET enqueued == AssignedTasks \ {assignments'[k].task.id : k \in DOMAIN assignments'}
       IN  (/\ enqueuedGangs' # enqueuedGangs
            /\ \A k \in DOMAIN assignments :
                  assignments[k].task.id \in enqueued => GangTasks(k) \subseteq enqueued)
           => \A gang \in enqueuedGangs' \ enqueuedGangs :
                  \A k \in DOMAIN assignments :
                      assignments[k].task.id \in gang => gang = GangTasks(k)]_vars

(***************************************************************************)
(* lifecyclemgr                                                            *)
(***************************************************************************)
\* C19: a Kill made while the kill lock is set returns an Internal error and
\* sends nothing to the host manager; the lock is set and cleared from
\* outside, and a Kill made while it is clear goes on to the rate limiter
\* and, when that grants a token or is absent, to the KillPods request.
C19_KillRespectsKillLock ==
    [][/\ \A limited \in BOOLEAN : \A failed \in BOOLEAN :
             Kill(limited, failed)
             => IF lockKill
                THEN /\ lcOp'.err = "Internal"
                     /\ hostCalls' = hostCalls
                     /\ tokens' = tokens
                ELSE IF limited /\ tokens = 0
                THEN /\ lcOp'.err = "ResourceExhausted"
                     /\ hostCalls' = hostCalls
                ELSE /\ hostCalls' = [hostCalls EXCEPT !["KillPods"] = @ + 1]
                     /\ limited => tokens' = tokens - 1
                     /\ lcOp'.err \in {"nil", "RequestError"}
       /\ LockKill => lockKill'
       /\ UnlockKill => ~lockKill']_vars

\* a Kill was refused under the lock, the lock was cleared, and a later Kill
\* took a token and reached the host manager
C19_Witness ==
    /\ metrics["KillRateLimit"] > 0
    /\ ~lockKill
    /\ lcOp.op = "Kill"
    /\ lcOp.err = "nil"
    /\ hostCalls["KillPods"] > 0
    /\ tokens < Burst

\* C20: Launch sends LaunchPods only if there are pods and the rate limiter,
\* when one is given, grants a token; without pods it returns an error and
\* with a denied token ResourceExhausted, both without a host manager call.
C20_LaunchSendsOnlyWithPodsAndToken ==
    [][\A numPods \in 0 .. MaxPods : \A limited \in BOOLEAN : \A failed \in BOOLEAN :
          Launch(numPods, limited, failed)
          => /\ hostCalls' # hostCalls => (numPods > 0 /\ (limited => tokens > 0))
             /\ numPods = 0 => (lcOp'.err = "errEmptyPods" /\ hostCalls' = hostCalls)
             /\ (numPods > 0 /\ limited /\ tokens = 0)
                => (lcOp'.err = "ResourceExhausted" /\ hostCalls' = hostCalls)
             /\ (numPods > 0 /\ (limited => tokens > 0))
                => hostCalls' = [hostCalls EXCEPT !["LaunchPods"] = @ + 1]]_vars

\* one Launch was denied a token, and later one was sent to the host manager
C20_Witness ==
    /\ metrics["LaunchRateLimit"] > 0
    /\ hostCalls["LaunchPods"] > 0
    /\ lcOp.op = "Launch"
    /\ lcOp.err = "errEmptyPods"

\* C21: a Launch that reaches the host manager increments exactly one of the
\* counters Launch and LaunchFail, by the number of its pods: LaunchFail, with
\* the error returned, when LaunchPods fails, and Launch, with nil returned,
\* when it succeeds.  So Launch + LaunchFail is always the number of pods
\* sent to the host manager.
C21_LaunchCountsEveryPodOnce ==
    [][/\ \A numPods \in 0 .. MaxPods : \A limited \in BOOLEAN : \A failed \in BOOLEAN :
             (hostCalls' # hostCalls /\ Launch(numPods, limited, failed))
             => IF failed
                THEN /\ metrics' = [metrics EXCEPT !["LaunchFail"] = @ + numPods]
                     /\ lcOp'.err = "RequestError"
                ELSE /\ metrics' = [metrics EXCEPT !["Launch"] = @ + numPods]
                     /\ lcOp'.err = "nil"
       /\ metrics'["Launch"] + metrics'["LaunchFail"] = podsSent']_vars

\* a request of two pods failed and another request succeeded
C21_Witness ==
    /\ metrics["LaunchFail"] >= 2
    /\ metrics["Launch"] >= 1
    /\ podsSent = metrics["Launch"] + metrics["LaunchFail"]

(***************************************************************************)
(* jobmgr/goalstate                                                        *)
(***************************************************************************)
\* every goal-state variable but the record of the last action
TaskAndJobState == <<jobCached, taskCached, taskStore, cacheWrites, rmGangs,
                     engineQueue, launched, taMetrics, jobGoal>>

\* the place of a call among the calls of the last action, 0 if it was not made
CallIndex(op, name) ==
    IF \E k \in DOMAIN op.calls : op.calls[k] = name
    THEN CHOOSE k \in DOMAIN op.calls : op.calls[k] = name
    ELSE 0

\* C22: the task actions never write a task's runtime in the cache directly:
\* every write of a runtime by TaskStart, TaskReloadRuntime, TaskPreempt or
\* TaskStateInvalid is a RuntimeDiff handed to PatchTasks.
C22_EveryRuntimeWriteIsAPatch ==
    \A w \in cacheWrites : w[2] = "PatchTasks"

\* C23: TaskStateInvalid, run for a task the cache holds, logs one error,
\* increments the invalid-state metric by exactly one, changes no task or job
\* state in the cache or the store, enqueues nothing and returns nil.
C23_TaskStateInvalidOnlyCounts ==
    [][(jobCached /\ taskCached # AbsentTask /\ TaskStateInvalid)
       => /\ taMetrics'.TaskInvalidState = taMetrics.TaskInvalidState + 1
          /\ taMetrics'.errorsLogged = taMetrics.errorsLogged + 1
          /\ UNCHANGED <<jobCached, taskCached, taskStore, cacheWrites>>
          /\ UNCHANGED <<rmGangs, engineQueue, launched, jobGoal>>
          /\ taOp'.err = "nil"]_vars

\* TaskStateInvalid ran for a task whose runtime the cache holds
C23_Witness ==
    /\ taOp.op = "TaskStateInvalid"
    /\ taskCached.entry = "runtime"
    /\ taMetrics.TaskInvalidState > 0

C25_StatefulPatchesBeforeLaunch ==
    [][\A env \in StartEnvs :
          (jobCached /\ taOp'.op = "TaskStart" /\ IsStateful(env) /\ TaskStart(env))
          => /\ rmGangs' = rmGangs
             /\ CallIndex(taOp', "EnqueueGangs") = 0
             /\ CallIndex(taOp', "LaunchStatefulTasks") > 0
                => /\ CallIndex(taOp', "PatchTasks") > 0
                   /\ CallIndex(taOp', "PatchTasks") < CallIndex(taOp', "LaunchStatefulTasks")
                   /\ ~env.patchErr
                   /\ taskCached' = CachedTask(Patched(env.diff))
             /\ (env.launchable = "task" /\ taskCached # AbsentTask)
                => IF env.patchErr
                   THEN /\ taOp'.err = "error"
                        /\ launched' = launched
                        /\ CallIndex(taOp', "LaunchStatefulTasks") = 0
                        /\ UNCHANGED <<taskCached, taskStore>>
                   ELSE /\ launched'
                        /\ taOp'.err = "nil"]_vars

\* after a stateful launch, another TaskStart stopped at its failed patch
C25_Witness ==
    /\ taOp.op = "TaskStart"
    /\ launched
    /\ taOp.err = "error"
    /\ Len(taOp.calls) > 0
    /\ taOp.calls[Len(taOp.calls)] = "PatchTasks"
    /\ CallIndex(taOp, "GetLaunchableTasks") > 0

\* C26: TaskStart returns an error, without enqueuing a gang or patching a
\* runtime, when the job config or the task info does not load; when the job
\* is not in the cache it returns nil and changes nothing.
C26_TaskStartStopsWhenNothingLoads ==
    [][\A env \in StartEnvs :
          (taOp'.op = "TaskStart" /\ TaskStart(env))
          => /\ ~jobCached => (taOp'.err = "nil" /\ UNCHANGED TaskAndJobState)
             /\ (jobCached /\ (env.configErr \/ env.taskInfoErr))
                => /\ taOp'.err = "error"
                   /\ CallIndex(taOp', "EnqueueGangs") = 0
                   /\ CallIndex(taOp', "PatchTasks") = 0
                   /\ UNCHANGED TaskAndJobState]_vars

\* TaskStart stopped at the task info that did not load
C26_Witness ==
    /\ taOp.op = "TaskStart"
    /\ taOp.err = "error"
    /\ taOp.calls = <<"GetJob", "GetConfig", "GetSLA", "GetTaskByID">>

\* C27: for a task of a batch job whose SLA limits the running instances
\* TaskStart sends nothing to the resource manager and patches no runtime;
\* it enqueues the job into the job goal-state engine and returns nil.
C27_LimitedBatchTaskGoesToTheJob ==
    [][\A env \in StartEnvs :
          (/\ jobCached
           /\ taOp'.op = "TaskStart"
           /\ ~env.configErr
           /\ env.jobType = "BATCH"
           /\ env.maxRunning > 0
           /\ TaskStart(env))
          => /\ "job" \in engineQueue'
             /\ taOp'.err = "nil"
             /\ CallIndex(taOp', "EnqueueGangs") = 0
             /\ CallIndex(taOp', "PatchTasks") = 0
             /\ UNCHANGED <<taskCached, taskStore, cacheWrites, rmGangs, launched>>]_vars

\* TaskStart ended by enqueuing the job
C27_Witness ==
    /\ taOp.op = "TaskStart"
    /\ Len(taOp.calls) > 0
    /\ taOp.calls[Len(taOp.calls)] = "jobEngine.Enqueue"
    /\ "job" \in engineQueue
    /\ taOp.err = "nil"

\* C28: GetDefaultJobGoalState gives RUNNING for a service job and SUCCEEDED
\* for a batch job.
C28_DefaultJobGoalState ==
    /\ jobGoal.type = "SERVICE" => jobGoal.goalState = "RUNNING"
    /\ jobGoal.type = "BATCH" => jobGoal.goalState = "SUCCEEDED"

\* a service job got its goal state
C28_Witness ==
    /\ jobGoal.type = "SERVICE"
    /\ jobGoal.goalState = "RUNNING"

\* C35: TaskPreempt returns the error of the policy lookup and runs no action
\* when the lookup fails; runs no action and returns nil when the policy is
\* kill-on-preempt; otherwise runs TaskInitialize and returns nil only if
\* TaskInitialize succeeded.
C35_TaskPreemptReportsTheOutcome ==
    [][\A configErr \in BOOLEAN : \A policy \in {"none", "KillOnPreempt", "Reschedule"} :
          \A patchErr \in BOOLEAN :
              TaskPreempt(configErr, policy, patchErr) =>
                  IF configErr
                  THEN /\ taOp'.err = "error"
                       /\ ~Calls(taOp', "TaskInitialize")
                       /\ UNCHANGED <<taskCached, taskStore, cacheWrites>>
                  ELSE IF policy = "KillOnPreempt"
                  THEN /\ taOp'.err = "nil"
                       /\ ~Calls(taOp', "TaskInitialize")
                       /\ UNCHANGED <<taskCached, taskStore, cacheWrites>>
                  ELSE /\ Calls(taOp', "TaskInitialize")
                       /\ (jobCached /\ patchErr) => taOp'.err # "nil"]_vars

\* C36: TaskReloadRuntime enqueues the task into the goal-state engine if and
\* only if the runtime was loaded and put into the cache; it does nothing
\* and returns nil when the job is not cached; when the load fails it returns
\* the error, enqueues nothing and leaves the cache, its task entries
\* included, as it was.
C36_FailedReloadLeavesTheCache ==
    [][\A storeErr \in BOOLEAN :
          TaskReloadRuntime(storeErr) =>
              /\ Calls(taOp', "EnqueueTask") <=> Calls(taOp', "ReplaceRuntime")
              /\ ~jobCached =>
                     /\ taOp'.err = "nil"
                     /\ TaskAndJobState' = TaskAndJobState
              /\ (jobCached /\ storeErr) =>
                     /\ taOp'.err = "error"
                     /\ engineQueue' = engineQueue
                     /\ taskCached' = taskCached]_vars

\* C38: with Kill calls running concurrently with the toggling of the kill
\* lock, no KillPods request is sent to the host manager while the kill lock
\* is set.
C38_NoKillPodsUnderKillLock ==
    [][hostCalls'["KillPods"] # hostCalls["KillPods"] => ~lockKill]_vars

\* C40: once started, the ids the index resolves (Get) are exactly the ids
\* of the nodes reached from root through children lists, each resolved to
\* the node reached: no removed node (a deleted node or a descendant of it
\* at any depth) stays in the index, and no indexed node is unreachable.
C40_IndexIsTheTreeBelowRoot ==
    root # NilNode
    => /\ DOMAIN resPools = SelfAndDescendantIDs(heap, root)
       /\ \A id \in DOMAIN resPools :
             resPools[id] \in {root} \cup BelowWithin(Cardinality(DOMAIN heap), heap, root)

=============================================================================
